---- MODULE Spec2Model ----
(***************************************************************************)
(* Website diagnosis tool: the scoring engine of WebsiteDiagnosisTool       *)
(* (src/website_diagnosis_tool.py).                                         *)
(*                                                                          *)
(* A tool object is built for one URL.  run_diagnosis fetches the page      *)
(* once, stores the response, the parsed document and the fetch duration   *)
(* on the object, runs the four category analyzers, each of which writes   *)
(* its own slot of the results dictionary, computes the weighted overall   *)
(* score and returns the results dictionary itself.                        *)
(*                                                                          *)
(* Encoding of Python values:                                               *)
(*   - a dict is a function from key strings to values; {} is EmptyDict;    *)
(*   - None is the empty sequence and a value v that may be None is <<v>>;  *)
(*   - a formatted message is [msg |-> template, args |-> <<numbers>>];     *)
(*   - a text is known by its length after strip(), the only thing the     *)
(*     analyzers read of it;                                                *)
(*   - times are in milliseconds, sizes in bytes, the overall score in     *)
(*     tenths of a point.                                                   *)
(***************************************************************************)
EXTENDS Integers, Sequences, FiniteSets, TLC

VARIABLES
    tool,        \* which WebsiteDiagnosisTool object this is: 1 for the first one built
    scheme,      \* self.parsed_url.scheme, fixed at construction
    pc,          \* position of run_diagnosis
    response,    \* self.response: None before the first successful fetch
    soup,        \* self.soup: the parsed document
    load_time,   \* self.load_time, in ms
    site,        \* what the host serves now: the page and its answer to a TLS handshake
    started,     \* analyzers that have built their category dict in local variables
    done,        \* analyzers that have written their slot in this run
    local,       \* analyzer -> the category dict it built in its local variables
    tls,         \* how the TLS handshake made in this run ended, None if none was made
    story,       \* the recommendations page of the PDF report, None until it is added
    shown,       \* the finding text the presentation layer was given and what it shows
    pdf,         \* how PDFReportGenerator.generate ended, None until it is called
    st,          \* the Streamlit page: st.session_state and what the script run put on it
    results,     \* self.results
    returned,    \* what the last run_diagnosis call returned, if it returned
    run,         \* number of run_diagnosis calls started on this URL
    fetches,     \* number of requests.get calls made by the current run
    first        \* the first completed run: what it read and what its caller received

vars == <<tool, scheme, pc, response, soup, load_time, site, started, done, local, tls, story,
          shown, st, pdf, results, returned, run, fetches, first>>

(***************************************************************************)
(* Bounds of the model.                                                     *)
(***************************************************************************)
MaxImages == 5     \* img elements on a page that has images
MaxHeadings == 2   \* heading elements on a page
MaxLevel == 3      \* deepest heading level used on a page
MaxInputs == 4     \* form controls on a page that has a form
MaxLinks == 2      \* anchor elements on a page
MaxAltImages == 10 \* img elements of the pages of the alt-tier runs
MaxTextLen == 4    \* fragments of a finding text given to the localizer
MaxRuns == 2       \* run_diagnosis calls on one URL
ScoreStep == 10    \* spacing of the score grid the aggregator is tried on

(***************************************************************************)
(* Python values.                                                           *)
(***************************************************************************)
None == <<>>
Some(v) == <<v>>
EmptyDict == [k \in {} |-> 0]
Entry(msg, args) == [msg |-> msg, args |-> args]
Explain(issue, category, key) ==
    [issue |-> issue, explanation |-> <<category, key>>]

Min(a, b) == IF a <= b THEN a ELSE b

\* round(num/den, 0) for num >= 0, den > 0: Python rounds an exactly
\* representable half to the even neighbour.
RoundHalfEven(num, den) ==
    LET q == num \div den
        r == num % den
    IN  IF 2 * r < den THEN q
        ELSE IF 2 * r > den THEN q + 1
        ELSE IF q % 2 = 0 THEN q ELSE q + 1

Categories == {"seo", "security", "performance", "accessibility"}

\* What one sub-check adds to the analyzer's local accumulators.
Awards(points, issues, success, explanations) ==
    [score |-> points, issues |-> issues, success |-> success,
     explanations |-> explanations]

Nothing == Awards(0, <<>>, <<>>, <<>>)

\* score after the first n sub-checks ran: the sum of their points.
RECURSIVE Points(_, _)
Points(checks, n) ==
    IF n = 0 THEN 0 ELSE Points(checks, n - 1) + checks[n].score

\* One of the lists issues, success, explanations after the first n sub-checks
\* ran: what each appended, in that order.
RECURSIVE Appended(_, _, _)
Appended(checks, list, n) ==
    IF n = 0 THEN <<>> ELSE Appended(checks, list, n - 1) \o checks[n][list]

\* The accumulators after the sub-checks ran in the order of the sequence.
Accumulate(checks) ==
    Awards(Points(checks, Len(checks)),
           Appended(checks, "issues", Len(checks)),
           Appended(checks, "success", Len(checks)),
           Appended(checks, "explanations", Len(checks)))

\* score = min(score, 100); the four lists are stored as built.
Finish(fields, acc) ==
    fields @@ [score |-> Min(acc.score, 100), issues |-> acc.issues,
               success |-> acc.success, explanations |-> acc.explanations]

\* Number of elements of seq equal to v.
RECURSIVE Count(_, _)
Count(seq, v) ==
    IF seq = <<>> THEN 0
    ELSE (IF Head(seq) = v THEN 1 ELSE 0) + Count(Tail(seq), v)

(***************************************************************************)
(* diagnose_seo.  doc is the parsed document.                               *)
(***************************************************************************)
\* SeoTitle with the upper limit left out of the range: 30 <= len < 60.
SeoTitleExclusive(doc) ==
    IF doc.titleLen >= 0
    THEN IF 30 <= doc.titleLen /\ doc.titleLen < 60
         THEN Awards(15, <<>>,
                     <<Entry("Title tag is configured ({} chars)", <<doc.titleLen>>)>>,
                     <<>>)
         ELSE Awards(0,
                     <<Entry("Title length is not optimal (current: {} chars, recommended: 30-60 chars)",
                             <<doc.titleLen>>)>>,
                     <<>>,
                     <<Explain("Title length", "seo", "title")>>)
    ELSE Awards(0, <<Entry("Title tag not found", <<>>)>>, <<>>,
                <<Explain("Title tag missing", "seo", "title")>>)

SeoTitle(doc) ==
    IF doc.titleLen >= 0
    THEN IF 30 <= doc.titleLen /\ doc.titleLen <= 60
         THEN Awards(15, <<>>,
                     <<Entry("Title tag is configured ({} chars)", <<doc.titleLen>>)>>,
                     <<>>)
         ELSE Awards(0,
                     <<Entry("Title length is not optimal (current: {} chars, recommended: 30-60 chars)",
                             <<doc.titleLen>>)>>,
                     <<>>,
                     <<Explain("Title length", "seo", "title")>>)
    ELSE Awards(0, <<Entry("Title tag not found", <<>>)>>, <<>>,
                <<Explain("Title tag missing", "seo", "title")>>)

SeoTitleFields(doc) ==
    IF doc.titleLen >= 0
    THEN [title |-> Some(doc.titleLen), title_length |-> doc.titleLen]
    ELSE [title |-> None]

SeoMetaDescription(doc) ==
    IF doc.descLen >= 0
    THEN IF 120 <= doc.descLen /\ doc.descLen <= 160
         THEN Awards(15, <<>>,
                     <<Entry("Meta description is configured ({} chars)", <<doc.descLen>>)>>,
                     <<>>)
         ELSE Awards(0,
                     <<Entry("Meta description length is not optimal (current: {} chars, recommended: 120-160 chars)",
                             <<doc.descLen>>)>>,
                     <<>>,
                     <<Explain("Meta description length", "seo", "meta_description")>>)
    ELSE Awards(0, <<Entry("Meta description not found", <<>>)>>, <<>>,
                <<Explain("Meta description missing", "seo", "meta_description")>>)

SeoMetaFields(doc) ==
    IF doc.descLen >= 0
    THEN [meta_description |-> Some(doc.descLen),
          meta_description_length |-> doc.descLen]
    ELSE [meta_description |-> None]

\* headings[f'h{i}']: the number of h<i> elements, for i in 1..6.
HeadingCounts(doc) == [i \in 1..6 |-> Count(doc.headings, i)]

SeoH1(doc) ==
    LET h1_count == HeadingCounts(doc)[1]
    IN  IF h1_count = 1
        THEN Awards(10, <<>>, <<Entry("Single H1 tag found", <<>>)>>, <<>>)
        ELSE IF h1_count = 0
        THEN Awards(0, <<Entry("H1 tag not found", <<>>)>>, <<>>,
                    <<Explain("H1 tag missing", "seo", "h1")>>)
        ELSE Awards(0, <<Entry("Multiple H1 tags found ({})", <<h1_count>>)>>, <<>>,
                    <<Explain("Multiple H1 tags", "seo", "h1")>>)

SeoH2(doc) ==
    IF HeadingCounts(doc)[2] > 0
    THEN Awards(5, <<>>, <<>>, <<>>)
    ELSE Awards(0, <<Entry("H2 tag not found", <<>>)>>, <<>>, <<>>)

\* SeoAlt with the first tier starting above 0.9 instead of at it.
SeoAltStrict(doc) ==
    LET a == doc.imagesWithAlt
        n == doc.images
    IN  IF n > 0
        THEN IF 10 * a > 9 * n
             THEN Awards(15, <<>>,
                         <<Entry("Most images have alt attributes ({}/{})", <<a, n>>)>>,
                         <<>>)
             ELSE IF 10 * a >= 7 * n
             THEN Awards(10,
                         <<Entry("Some images missing alt attributes ({}/{})", <<a, n>>)>>,
                         <<>>,
                         <<Explain("Missing alt attributes", "seo", "alt")>>)
             ELSE Awards(0,
                         <<Entry("Many images missing alt attributes ({}/{})", <<a, n>>)>>,
                         <<>>,
                         <<Explain("Missing alt attributes", "seo", "alt")>>)
        ELSE Nothing

\* alt_ratio = images_with_alt / total_images compared with 0.9 and 0.7.
SeoAlt(doc) ==
    LET a == doc.imagesWithAlt
        n == doc.images
    IN  IF n > 0
        THEN IF 10 * a >= 9 * n
             THEN Awards(15, <<>>,
                         <<Entry("Most images have alt attributes ({}/{})", <<a, n>>)>>,
                         <<>>)
             ELSE IF 10 * a >= 7 * n
             THEN Awards(10,
                         <<Entry("Some images missing alt attributes ({}/{})", <<a, n>>)>>,
                         <<>>,
                         <<Explain("Missing alt attributes", "seo", "alt")>>)
             ELSE Awards(0,
                         <<Entry("Many images missing alt attributes ({}/{})", <<a, n>>)>>,
                         <<>>,
                         <<Explain("Missing alt attributes", "seo", "alt")>>)
        ELSE Nothing

\* SeoOpenGraph explaining the missing tags without reporting an issue.
SeoOpenGraphExplained(doc) ==
    IF doc.ogTags > 0
    THEN Awards(10, <<>>, <<Entry("Open Graph tags configured", <<>>)>>, <<>>)
    ELSE Awards(0, <<>>, <<>>, <<Explain("Open Graph missing", "seo", "open_graph")>>)

SeoOpenGraph(doc) ==
    IF doc.ogTags > 0
    THEN Awards(10, <<>>, <<Entry("Open Graph tags configured", <<>>)>>, <<>>)
    ELSE Nothing

SeoTwitterCard(doc) ==
    IF doc.twitterTags > 0
    THEN Awards(5, <<>>, <<Entry("Twitter Card tags configured", <<>>)>>, <<>>)
    ELSE Nothing

SeoCanonical(doc) ==
    IF doc.canonical
    THEN Awards(5, <<>>, <<Entry("Canonical tag configured", <<>>)>>, <<>>)
    ELSE Nothing

SeoInternalLinks(doc) ==
    IF doc.internalLinks > 0
    THEN Awards(5, <<>>, <<Entry("Internal links found ({})", <<doc.internalLinks>>)>>, <<>>)
    ELSE Nothing

SeoStructuredData(doc) ==
    IF doc.jsonLd > 0
    THEN Awards(10, <<>>, <<Entry("Structured data found", <<>>)>>, <<>>)
    ELSE Nothing

SeoChecks(doc) ==
    <<SeoTitle(doc), SeoMetaDescription(doc), SeoH1(doc), SeoH2(doc), SeoAlt(doc),
      SeoOpenGraph(doc), SeoTwitterCard(doc), SeoCanonical(doc),
      SeoInternalLinks(doc), SeoStructuredData(doc)>>

SeoFields(doc) ==
    SeoTitleFields(doc) @@ SeoMetaFields(doc) @@
    [headings |-> HeadingCounts(doc),
     total_images |-> doc.images,
     images_with_alt |-> doc.imagesWithAlt,
     open_graph |-> doc.ogTags,
     twitter_card |-> doc.twitterTags,
     canonical |-> IF doc.canonical /\ doc.canonicalHref THEN Some("href") ELSE None,
     internal_links_count |-> doc.internalLinks,
     external_links_count |-> doc.externalLinks,
     structured_data |-> doc.jsonLd]

\* The dict diagnose_seo stores in self.results['seo'].
SeoResult(doc) == Finish(SeoFields(doc), Accumulate(SeoChecks(doc)))

(***************************************************************************)
(* diagnose_security.  resp is the response, handshake the outcome of the   *)
(* TLS handshake, made only for an https URL: "ok", or str(e) of the         *)
(* exception that create_connection or wrap_socket raised.                  *)
(***************************************************************************)
SecurityHeaders ==
    <<"Strict-Transport-Security", "X-Frame-Options", "X-Content-Type-Options",
      "X-XSS-Protection", "Content-Security-Policy", "Referrer-Policy",
      "Permissions-Policy">>

\* header_scores with the points of X-XSS-Protection and Content-Security-Policy
\* exchanged.
header_scoresExchanged(header) ==
    CASE header = "Strict-Transport-Security" -> 15
      [] header = "X-Frame-Options" -> 10
      [] header = "X-Content-Type-Options" -> 10
      [] header = "X-XSS-Protection" -> 20
      [] header = "Content-Security-Policy" -> 5
      [] header = "Referrer-Policy" -> 5
      [] header = "Permissions-Policy" -> 5
      [] OTHER -> 0

header_scores(header) ==
    CASE header = "Strict-Transport-Security" -> 15
      [] header = "X-Frame-Options" -> 10
      [] header = "X-Content-Type-Options" -> 10
      [] header = "X-XSS-Protection" -> 5
      [] header = "Content-Security-Policy" -> 20
      [] header = "Referrer-Policy" -> 5
      [] header = "Permissions-Policy" -> 5
      [] OTHER -> 0

header_explanations ==
    {"Strict-Transport-Security", "X-Frame-Options", "Content-Security-Policy"}

\* SecurityHttps taking points off a site without HTTPS.
SecurityHttpsPenalised(is_https) ==
    IF is_https
    THEN Awards(30, <<>>, <<Entry("HTTPS enabled", <<>>)>>, <<>>)
    ELSE Awards(-30, <<Entry("HTTPS not enabled (security risk)", <<>>)>>, <<>>,
                <<Explain("HTTPS not enabled", "security", "https")>>)

SecurityHttps(is_https) ==
    IF is_https
    THEN Awards(30, <<>>, <<Entry("HTTPS enabled", <<>>)>>, <<>>)
    ELSE Awards(0, <<Entry("HTTPS not enabled (security risk)", <<>>)>>, <<>>,
                <<Explain("HTTPS not enabled", "security", "https")>>)

\* One turn of the loop over security_headers.items().
SecurityHeader(resp, i) ==
    LET header == SecurityHeaders[i]
    IN  IF header \in resp.headers
        THEN Awards(header_scores(header), <<>>,
                    <<Entry(header \o " header configured", <<>>)>>, <<>>)
        ELSE Awards(0, <<Entry(header \o " header not set", <<>>)>>, <<>>,
                    IF header \in header_explanations
                    THEN <<Explain(header \o " missing", "security", header)>>
                    ELSE <<>>)

\* SecurityTls leaving a failed handshake out of the issues.
SecurityTlsSilent(is_https, handshake) ==
    IF is_https
    THEN IF handshake = "ok"
         THEN Awards(0, <<>>, <<Entry("Valid SSL certificate", <<>>)>>, <<>>)
         ELSE Nothing
    ELSE Nothing

\* SecurityTls taking points away when the handshake fails.
SecurityTlsFailurePenalised(is_https, handshake) ==
    IF is_https
    THEN IF handshake = "ok"
         THEN Awards(0, <<>>, <<Entry("Valid SSL certificate", <<>>)>>, <<>>)
         ELSE Awards(-10, <<Entry("SSL certificate check failed: " \o handshake, <<>>)>>,
                     <<>>, <<>>)
    ELSE Nothing

\* SecurityTls awarding points for a certificate that verified.
SecurityTlsScored(is_https, handshake) ==
    IF is_https
    THEN IF handshake = "ok"
         THEN Awards(10, <<>>, <<Entry("Valid SSL certificate", <<>>)>>, <<>>)
         ELSE Awards(0, <<Entry("SSL certificate check failed: " \o handshake, <<>>)>>,
                     <<>>, <<>>)
    ELSE Nothing

SecurityTls(is_https, handshake) ==
    IF is_https
    THEN IF handshake = "ok"
         THEN Awards(0, <<>>, <<Entry("Valid SSL certificate", <<>>)>>, <<>>)
         ELSE Awards(0, <<Entry("SSL certificate check failed: " \o handshake, <<>>)>>,
                     <<>>, <<>>)
    ELSE Nothing

SecurityChecks(is_https, resp, handshake) ==
    <<SecurityHttps(is_https)>> \o
    [i \in 1..Len(SecurityHeaders) |-> SecurityHeader(resp, i)] \o
    <<SecurityTls(is_https, handshake)>>

\* security['ssl_certificate'] is set only when the handshake was attempted.
SecurityFields(is_https, resp, handshake) ==
    [https |-> is_https,
     security_headers |-> {SecurityHeaders[i] : i \in {j \in 1..Len(SecurityHeaders) :
                                                       SecurityHeaders[j] \in resp.headers}}]
    @@ (IF is_https
        THEN [ssl_certificate |-> IF handshake = "ok" THEN Some("cert") ELSE None]
        ELSE EmptyDict)

\* The dict diagnose_security stores in self.results['security'].
SecurityResult(is_https, resp, handshake) ==
    Finish(SecurityFields(is_https, resp, handshake),
           Accumulate(SecurityChecks(is_https, resp, handshake)))

(***************************************************************************)
(* diagnose_performance.                                                    *)
(***************************************************************************)
\* 2^n modulo 1000.
RECURSIVE Pow2Mod(_)
Pow2Mod(n) == IF n = 0 THEN 1 ELSE (2 * Pow2Mod(n - 1)) % 1000

\* The k with 2^k <= num/den < 2^(k+1), for num > 0.
RECURSIVE BinaryExponent(_, _)
BinaryExponent(num, den) ==
    IF num >= 2 * den THEN 1 + BinaryExponent(num, 2 * den)
    ELSE IF num < den THEN BinaryExponent(2 * num, den) - 1
    ELSE 0

\* self.load_time is the double nearest to ms/1000: m / 2^e with 53 significant
\* bits, m the integer nearest to ms * 2^e / 1000.  The remainder of
\* ms * 2^e by 1000 says where it lies: 0 it is ms/1000 itself, below 500 it
\* is smaller, above 500 it is larger (the remainder is a multiple of 8, hence
\* never 500).
DoubleRemainder(ms) ==
    ((ms % 1000) * Pow2Mod(52 - BinaryExponent(ms, 1000))) % 1000

\* round(self.load_time, 2), in hundredths of a second: round works on the
\* value of the double, so a time ending in 5 ms goes to the side the double
\* lies on, and to the even neighbour only when the double is the tie itself.
Round2(ms) ==
    IF ms % 10 # 5 THEN RoundHalfEven(ms, 10)
    ELSE IF DoubleRemainder(ms) = 0 THEN RoundHalfEven(ms, 10)
    ELSE IF DoubleRemainder(ms) > 500 THEN ms \div 10 + 1
    ELSE ms \div 10
\* round(page_size / 1024, 2), in hundredths of a KB.
SizeKb(bytes) == RoundHalfEven(bytes * 100, 1024)
\* round(page_size / 1024 / 1024, 2), in hundredths of a MB.
SizeMb(bytes) == RoundHalfEven(bytes * 100, 1024 * 1024)

\* PerfLoadTime with the boundary values in the faster tier.
PerfLoadTimeInclusive(ms) ==
    IF ms <= 1000
    THEN Awards(30, <<>>, <<Entry("Fast page load time ({}s)", <<Round2(ms)>>)>>, <<>>)
    ELSE IF ms <= 2000
    THEN Awards(20, <<Entry("Page load time is slightly slow ({}s)", <<Round2(ms)>>)>>,
                <<>>, <<Explain("Slow load time", "performance", "load_time")>>)
    ELSE IF ms <= 3000
    THEN Awards(10, <<Entry("Page load time is slow ({}s)", <<Round2(ms)>>)>>,
                <<>>, <<Explain("Slow load time", "performance", "load_time")>>)
    ELSE Awards(0, <<Entry("Page load time is very slow ({}s)", <<Round2(ms)>>)>>,
                <<>>, <<Explain("Very slow load time", "performance", "load_time")>>)

PerfLoadTime(ms) ==
    IF ms < 1000
    THEN Awards(30, <<>>, <<Entry("Fast page load time ({}s)", <<Round2(ms)>>)>>, <<>>)
    ELSE IF ms < 2000
    THEN Awards(20, <<Entry("Page load time is slightly slow ({}s)", <<Round2(ms)>>)>>,
                <<>>, <<Explain("Slow load time", "performance", "load_time")>>)
    ELSE IF ms < 3000
    THEN Awards(10, <<Entry("Page load time is slow ({}s)", <<Round2(ms)>>)>>,
                <<>>, <<Explain("Slow load time", "performance", "load_time")>>)
    ELSE Awards(0, <<Entry("Page load time is very slow ({}s)", <<Round2(ms)>>)>>,
                <<>>, <<Explain("Very slow load time", "performance", "load_time")>>)

PerfPageSize(page_size) ==
    IF page_size < 500 * 1024
    THEN Awards(20, <<>>,
                <<Entry("Appropriate page size ({}KB)", <<SizeKb(page_size)>>)>>, <<>>)
    ELSE IF page_size < 1024 * 1024
    THEN Awards(15, <<Entry("Page size is slightly large ({}KB)", <<SizeKb(page_size)>>)>>,
                <<>>, <<Explain("Large page size", "performance", "page_size")>>)
    ELSE IF page_size < 3 * 1024 * 1024
    THEN Awards(5, <<Entry("Page size is large ({}MB)", <<SizeMb(page_size)>>)>>,
                <<>>, <<Explain("Large page size", "performance", "page_size")>>)
    ELSE Awards(0, <<Entry("Page size is very large ({}MB)", <<SizeMb(page_size)>>)>>,
                <<>>, <<Explain("Very large page size", "performance", "page_size")>>)

\* script elements include the JSON-LD blocks, parseable or not.
Resources(doc) ==
    [scripts |-> doc.scripts + doc.jsonLd + doc.jsonLdBroken,
     stylesheets |-> doc.stylesheets,
     images |-> doc.images,
     iframes |-> doc.iframes]

TotalResources(doc) ==
    LET r == Resources(doc) IN r.scripts + r.stylesheets + r.images + r.iframes

PerfResources(doc) ==
    LET total_resources == TotalResources(doc)
    IN  IF total_resources < 30
        THEN Awards(15, <<>>,
                    <<Entry("Appropriate number of resources ({})", <<total_resources>>)>>, <<>>)
        ELSE IF total_resources < 50
        THEN Awards(10, <<>>,
                    <<Entry("Moderate number of resources ({})", <<total_resources>>)>>, <<>>)
        ELSE Awards(0, <<Entry("Too many resources (total: {})", <<total_resources>>)>>,
                    <<>>, <<>>)

\* resp.encoding is None or <<value of the Content-Encoding header>>.
PerfCompression(resp) ==
    IF resp.encoding \in {Some("gzip"), Some("br"), Some("deflate")}
    THEN Awards(15, <<>>,
                <<Entry("Content compression enabled (" \o resp.encoding[1] \o ")", <<>>)>>,
                <<>>)
    ELSE Awards(0, <<Entry("Content compression not enabled", <<>>)>>, <<>>,
                <<Explain("No compression", "performance", "compression")>>)

PerfCacheControl(resp) ==
    IF resp.cacheControl
    THEN Awards(10, <<>>, <<Entry("Cache-Control header configured", <<>>)>>, <<>>)
    ELSE Awards(0, <<Entry("Cache-Control header not set", <<>>)>>, <<>>, <<>>)

PerformanceChecks(resp, doc, ms) ==
    <<PerfLoadTime(ms), PerfPageSize(resp.size), PerfResources(doc),
      PerfCompression(resp), PerfCacheControl(resp)>>

PerformanceFields(resp, doc, ms) ==
    [load_time |-> ms,
     page_size_bytes |-> resp.size,
     page_size_kb |-> SizeKb(resp.size),
     resources |-> Resources(doc),
     compression |-> resp.encoding,
     cache_control |-> IF resp.cacheControl THEN Some("value") ELSE None]

\* The dict diagnose_performance stores in self.results['performance'].
PerformanceResult(resp, doc, ms) ==
    Finish(PerformanceFields(resp, doc, ms), Accumulate(PerformanceChecks(resp, doc, ms)))

(***************************************************************************)
(* diagnose_accessibility.                                                  *)
(***************************************************************************)
AccLang(doc) ==
    IF doc.lang
    THEN Awards(15, <<>>, <<Entry("HTML lang attribute present ({})", <<>>)>>, <<>>)
    ELSE Awards(0, <<Entry("HTML element missing lang attribute", <<>>)>>, <<>>,
                <<Explain("Missing lang attribute", "accessibility", "lang")>>)

\* alt_ratio = (len(images) - len(images_without_alt)) / len(images),
\* compared with 1 and 0.8.
AccAlt(doc) ==
    LET n == doc.images
        without == doc.images - doc.imagesWithAlt
    IN  IF n > 0
        THEN IF n - without = n
             THEN Awards(20, <<>>, <<Entry("All images have alt attributes", <<>>)>>, <<>>)
             ELSE IF 10 * (n - without) >= 8 * n
             THEN Awards(15, <<Entry("{} images missing alt attributes", <<without>>)>>,
                         <<>>, <<>>)
             ELSE Awards(0,
                         <<Entry("Many images missing alt attributes ({}/{})", <<without, n>>)>>,
                         <<>>, <<>>)
        ELSE Nothing

\* inputs_with_labels >= len(inputs) * 0.7
AccFormLabels(doc) ==
    LET n == doc.inputs
        l == doc.inputsWithLabels
    IN  IF n > 0
        THEN IF l = n
             THEN Awards(15, <<>>, <<Entry("All form elements have labels", <<>>)>>, <<>>)
             ELSE IF 10 * l >= 7 * n
             THEN Awards(10, <<Entry("Some form elements missing labels ({}/{})", <<l, n>>)>>,
                         <<>>, <<>>)
             ELSE Awards(0, <<Entry("Many form elements missing labels ({}/{})", <<l, n>>)>>,
                         <<>>, <<>>)
        ELSE Nothing

\* AccAria awarding 10 points for the roles and 10 more for the labels.
AccAriaPerKind(doc) ==
    IF doc.ariaRoles > 0 \/ doc.ariaLabels > 0
    THEN Awards((IF doc.ariaRoles > 0 THEN 10 ELSE 0) + (IF doc.ariaLabels > 0 THEN 10 ELSE 0),
                <<>>,
                <<Entry("ARIA attributes used ({} roles, {} labels)",
                        <<doc.ariaRoles, doc.ariaLabels>>)>>, <<>>)
    ELSE Nothing

AccAria(doc) ==
    IF doc.ariaRoles > 0 \/ doc.ariaLabels > 0
    THEN Awards(10, <<>>,
                <<Entry("ARIA attributes used ({} roles, {} labels)",
                        <<doc.ariaRoles, doc.ariaLabels>>)>>, <<>>)
    ELSE Nothing

AccMain(doc) ==
    IF doc.mainTags > 0
    THEN Awards(10, <<>>, <<Entry("Main landmark found", <<>>)>>, <<>>)
    ELSE Awards(0, <<Entry("Main landmark not found", <<>>)>>, <<>>,
                <<Explain("Missing main landmark", "accessibility", "main_landmark")>>)

AccNav(doc) ==
    IF doc.navTags > 0
    THEN Awards(5, <<>>, <<Entry("Navigation landmark found", <<>>)>>, <<>>)
    ELSE Nothing

\* headings_order: for i in 1..6, one i per h<i> element -- the levels grouped by
\* level, not in the order of the document.
headings_order(doc) ==
    LET counts == HeadingCounts(doc)
        Repeat(i) == [k \in 1..counts[i] |-> i]
    IN  Repeat(1) \o Repeat(2) \o Repeat(3) \o Repeat(4) \o Repeat(5) \o Repeat(6)

heading_skip(order) ==
    \E i \in 1..(Len(order) - 1) : order[i + 1] - order[i] > 1

AccHeadings(doc) ==
    LET order == headings_order(doc)
    IN  IF ~heading_skip(order) /\ Len(order) > 0
        THEN Awards(10, <<>>, <<Entry("Proper heading hierarchy", <<>>)>>, <<>>)
        ELSE IF heading_skip(order)
        THEN Awards(0, <<Entry("Heading hierarchy issues (e.g., h4 after h2)", <<>>)>>,
                    <<>>, <<>>)
        ELSE Nothing

AccLinks(doc) ==
    IF doc.emptyLinks = 0 /\ doc.links > 0
    THEN Awards(10, <<>>, <<Entry("All links have text", <<>>)>>, <<>>)
    ELSE IF doc.emptyLinks > 0
    THEN Awards(0, <<Entry("{} links without text", <<doc.emptyLinks>>)>>, <<>>, <<>>)
    ELSE Nothing

AccessibilityChecks(doc) ==
    <<AccLang(doc), AccAlt(doc), AccFormLabels(doc), AccAria(doc), AccMain(doc),
      AccNav(doc), AccHeadings(doc), AccLinks(doc)>>

AccessibilityFields(doc) ==
    [lang_attribute |-> IF doc.lang THEN Some("lang") ELSE None,
     images_without_alt_count |-> doc.images - doc.imagesWithAlt,
     form_inputs_count |-> doc.inputs,
     inputs_with_labels |-> doc.inputsWithLabels,
     aria_roles_count |-> doc.ariaRoles,
     aria_labels_count |-> doc.ariaLabels,
     landmarks |-> [main |-> doc.mainTags, nav |-> doc.navTags],
     empty_links_count |-> doc.emptyLinks]

\* The dict diagnose_accessibility stores in self.results['accessibility'].
AccessibilityResult(doc) ==
    Finish(AccessibilityFields(doc), Accumulate(AccessibilityChecks(doc)))

(***************************************************************************)
(* calculate_overall_score.                                                 *)
(***************************************************************************)
\* weights with every category counted alike.
weightsEqual(category) == 25

\* weights, in hundredths.
weights(category) ==
    CASE category = "seo" -> 30
      [] category = "security" -> 30
      [] category = "performance" -> 20
      [] category = "accessibility" -> 20

\* overall += score * weight over the four categories, in hundredths of a point.
WeightedSum(res) ==
    res["seo"].score * weights("seo") + res["security"].score * weights("security")
    + res["performance"].score * weights("performance")
    + res["accessibility"].score * weights("accessibility")

\* round(overall, 1), in tenths of a point.
overall_score(res) == RoundHalfEven(WeightedSum(res), 10)

scores(res) == [c \in Categories |-> res[c].score]

(***************************************************************************)
(* The sites the tool is pointed at.  A site is what the host answers: the  *)
(* HTTP response, the document parsed from its body, the time the fetch     *)
(* takes, the outcome of a TLS handshake on port 443, whether the page      *)
(* host answers a request at all and whether html.parser accepts the body.  *)
(*                                                                          *)
(* Two base sites, one passing every check and one passing none, are varied *)
(* one group of inputs at a time, each group over the full product of its   *)
(* values: the head and link inputs of the SEO checks, the headings and     *)
(* images, the other inputs of the accessibility checks, the security       *)
(* inputs and the performance inputs.                                       *)
(***************************************************************************)
GoodDoc ==
    [titleLen |-> 45, descLen |-> 140, headings |-> <<1, 2>>,
     images |-> MaxImages, imagesWithAlt |-> MaxImages,
     ogTags |-> 1, twitterTags |-> 1, canonical |-> TRUE, canonicalHref |-> TRUE,
     internalLinks |-> 1, externalLinks |-> 0, jsonLd |-> 1, jsonLdBroken |-> 0,
     scripts |-> 1, stylesheets |-> 1, iframes |-> 0,
     lang |-> TRUE, inputs |-> MaxInputs, inputsWithLabels |-> MaxInputs,
     ariaRoles |-> 1, ariaLabels |-> 0, mainTags |-> 1, navTags |-> 1,
     links |-> 1, emptyLinks |-> 0]

PoorDoc ==
    [titleLen |-> -1, descLen |-> -1, headings |-> <<>>,
     images |-> 0, imagesWithAlt |-> 0,
     ogTags |-> 0, twitterTags |-> 0, canonical |-> FALSE, canonicalHref |-> FALSE,
     internalLinks |-> 0, externalLinks |-> 0, jsonLd |-> 0, jsonLdBroken |-> 1,
     scripts |-> 49, stylesheets |-> 0, iframes |-> 0,
     lang |-> FALSE, inputs |-> 0, inputsWithLabels |-> 0,
     ariaRoles |-> 0, ariaLabels |-> 0, mainTags |-> 0, navTags |-> 0,
     links |-> 0, emptyLinks |-> 0]

AllSecurityHeaders == {SecurityHeaders[i] : i \in 1..Len(SecurityHeaders)}

GoodResponse ==
    [status |-> 200, headers |-> AllSecurityHeaders, encoding |-> Some("gzip"),
     cacheControl |-> TRUE, size |-> 20000]

PoorResponse ==
    [status |-> 200, headers |-> {}, encoding |-> None,
     cacheControl |-> FALSE, size |-> 3 * 1024 * 1024]

GoodSite ==
    [scheme |-> "https", response |-> GoodResponse, doc |-> GoodDoc, ms |-> 400,
     handshake |-> "ok", answers |-> TRUE, parses |-> TRUE]

PoorSite ==
    [scheme |-> "http", response |-> PoorResponse, doc |-> PoorDoc, ms |-> 3000,
     handshake |-> "timed out", answers |-> TRUE, parses |-> TRUE]

BaseSites == {GoodSite, PoorSite}

TitleLens == {-1, 29, 30, 60, 61}
DescLens == {-1, 119, 120, 160, 161}
\* (img elements, img elements with a non-empty alt)
ImagePairs == {<<0, 0>>} \cup {<<MaxImages, a>> : a \in 0..MaxImages}
InputPairs == {<<0, 0>>} \cup {<<MaxInputs, l>> : l \in 0..MaxInputs}
LinkPairs == {<<n, e>> \in (0..MaxLinks) \X (0..MaxLinks) : e <= n}
HeadingSeqs == UNION {[1..n -> 1..MaxLevel] : n \in 0..MaxHeadings}
\* The tier limits and their predecessors, and a time ending in 5 ms.
LoadTimes == {999, 1000, 1015, 1999, 2000, 2999, 3000}
PageSizes == {500 * 1024 - 1, 500 * 1024, 1024 * 1024 - 1, 1024 * 1024,
              3 * 1024 * 1024 - 1, 3 * 1024 * 1024}
ResourceTotals == {29, 30, 49, 50}
Encodings == {None, Some("gzip"), Some("br"), Some("deflate"), Some("identity")}
Statuses == {200, 404}
\* str(e) of a connection timeout, of a certificate that does not verify and of
\* a host name that does not resolve.
HandshakeErrors ==
    {"timed out",
     "[SSL: CERTIFICATE_VERIFY_FAILED] certificate verify failed: certificate has expired (_ssl.c:1007)",
     "[Errno -2] Name or service not known"}

Max(a, b) == IF a >= b THEN a ELSE b

WithDoc(b, d) == [b EXCEPT !.doc = d]

SeoSites(b) ==
    {WithDoc(b, [b.doc EXCEPT !.titleLen = t, !.descLen = m,
                              !.ogTags = og, !.twitterTags = tw,
                              !.canonical = ca, !.canonicalHref = ca,
                              !.internalLinks = il, !.links = Max(b.doc.links, il),
                              !.jsonLd = js]) :
        t \in TitleLens, m \in DescLens, og \in 0..1, tw \in 0..1,
        ca \in BOOLEAN, il \in 0..1, js \in 0..1}

HeadingSites(b) ==
    {WithDoc(b, [b.doc EXCEPT !.headings = h, !.images = im[1], !.imagesWithAlt = im[2]]) :
        h \in HeadingSeqs, im \in ImagePairs}

AccessibilitySites(b) ==
    {WithDoc(b, [b.doc EXCEPT !.lang = la,
                              !.inputs = inp[1], !.inputsWithLabels = inp[2],
                              !.ariaRoles = ro, !.ariaLabels = al,
                              !.mainTags = ma, !.navTags = na,
                              !.links = li[1], !.emptyLinks = li[2],
                              !.internalLinks = IF li[1] = 0 THEN 0 ELSE b.doc.internalLinks]) :
        la \in BOOLEAN, inp \in InputPairs, ro \in 0..1, al \in 0..1,
        ma \in 0..1, na \in 0..1, li \in LinkPairs}

\* No handshake is made for an http URL, so its outcome is left as it is.
SchemeHandshakes(b) ==
    {<<"http", b.handshake>>} \cup {<<"https", hs>> : hs \in {"ok"} \cup HandshakeErrors}

SecuritySites(b) ==
    {[b EXCEPT !.scheme = sh[1], !.handshake = sh[2], !.response.headers = hd,
               !.response.status = code] :
        sh \in SchemeHandshakes(b), hd \in SUBSET AllSecurityHeaders, code \in Statuses}

PerformanceSites(b) ==
    {[b EXCEPT !.ms = ms, !.response.size = sz, !.response.encoding = en,
               !.response.cacheControl = cc, !.doc.scripts = sn] :
        ms \in LoadTimes, sz \in PageSizes, en \in Encodings, cc \in BOOLEAN,
        sn \in {b.doc.scripts} \cup
               {n \in 0..50 : n + TotalResources(b.doc) - b.doc.scripts \in ResourceTotals}}

\* A page whose canonical link has no href attribute, and a host that answers
\* with a body html.parser rejects.
OddSites(b) ==
    {WithDoc(b, [b.doc EXCEPT !.canonical = TRUE, !.canonicalHref = FALSE]),
     [b EXCEPT !.parses = FALSE]}

Sites ==
    UNION {SeoSites(b) \cup HeadingSites(b) \cup AccessibilitySites(b)
           \cup SecuritySites(b) \cup PerformanceSites(b) \cup OddSites(b) : b \in BaseSites}

\* The sites of the specifications that run the tool more than once or run the
\* analyzers concurrently.
FewSites ==
    BaseSites \cup
    {[GoodSite EXCEPT !.handshake = "timed out"],
     [GoodSite EXCEPT !.response = PoorResponse],
     [GoodSite EXCEPT !.doc = PoorDoc],
     [PoorSite EXCEPT !.doc = GoodDoc],
     [PoorSite EXCEPT !.scheme = "https", !.handshake = "ok"],
     [PoorSite EXCEPT !.response.status = 404],
     [GoodSite EXCEPT !.parses = FALSE]}

(***************************************************************************)
(* The tool object.                                                         *)
(***************************************************************************)
\* self.results as __init__ builds it; the timestamp is known by the object it
\* was taken for.
InitialResults(t) ==
    [url |-> "url", timestamp |-> t, seo |-> EmptyDict, security |-> EmptyDict,
     performance |-> EmptyDict, accessibility |-> EmptyDict, overall_score |-> 0]

NoLocals == [c \in Categories |-> EmptyDict]

\* The page of streamlit_app.py after the first script run of a session, the
\* button not pressed: the sidebar has stored show_help for the unchecked
\* checkbox, nothing is written, no exception, and the script run is over.
BlankPage ==
    [session_state |-> [show_help |-> FALSE], messages |-> <<>>, view |-> None,
     raised |-> None, script |-> "done"]

\* __init__ for the URL of site s.
Constructed(s) ==
    /\ site = s
    /\ tool = 1
    /\ scheme = s.scheme
    /\ pc = "ready"
    /\ response = None
    /\ soup = None
    /\ load_time = None
    /\ started = {}
    /\ done = {}
    /\ local = NoLocals
    /\ tls = None
    /\ story = None
    /\ shown = None
    /\ st = BlankPage
    /\ pdf = None
    /\ results = InitialResults(1)
    /\ returned = "pending"
    /\ run = 1
    /\ fetches = 0
    /\ first = None

Init == \E s \in Sites : Constructed(s)

\* What the caller of the first completed run received, next to what that run read.
Remember(ret) ==
    IF first = None
    THEN Some([tool |-> tool, ret |-> ret, site |-> site, tls |-> tls,
               snapshot |-> <<response, soup, load_time>>, record |-> results])
    ELSE first

\* requests.get answers, whatever the status, the body parses and the
\* snapshot is stored.
Fetch ==
    /\ pc = "ready"
    /\ site.answers
    /\ site.parses
    /\ response' = Some(site.response)
    /\ soup' = Some(site.doc)
    /\ load_time' = Some(site.ms)
    /\ fetches' = fetches + 1
    /\ pc' = "analyze"
    /\ UNCHANGED <<pdf, st, shown, story, tls, tool, scheme, site, started, done, local, results, returned, run, first>>

\* FetchFails with the except block returning the results dictionary.
FetchFailsReturningResults ==
    /\ pc = "ready"
    /\ fetches' = fetches + 1
    /\ returned' = "self.results"
    /\ first' = Remember("self.results")
    /\ pc' = "returned"
    /\ UNCHANGED <<pdf, st, shown, story, tls, tool, scheme, site, response, soup, load_time, started, done, local,
                   results, run>>

\* FetchFails for requests.get called without a timeout: it raises when the
\* connection fails and waits without end for a host that never answers.
FetchFailsWithoutTimeout ==
    /\ pc = "ready"
    /\ site.answers
    /\ fetches' = fetches + 1
    /\ returned' = "None"
    /\ first' = Remember("None")
    /\ pc' = "returned"
    /\ UNCHANGED <<pdf, st, shown, story, tls, tool, scheme, site, response, soup, load_time, started, done, local,
                   results, run>>

\* The try block raises and the except block returns None.  Either
\* requests.get raises (no connection, or no answer within timeout=30) and
\* nothing is stored, or the host answers and BeautifulSoup raises on the
\* body: self.response is assigned before the parse, self.soup and
\* self.load_time are not.
FetchFails ==
    /\ pc = "ready"
    /\ \/ response' = response
       \/ /\ site.answers
          /\ ~site.parses
          /\ response' = Some(site.response)
    /\ fetches' = fetches + 1
    /\ returned' = "None"
    /\ first' = IF first = None
                THEN Some([Remember("None")[1] EXCEPT
                              !.snapshot = <<response', soup, load_time>>])
                ELSE first
    /\ pc' = "returned"
    /\ UNCHANGED <<pdf, st, shown, story, tls, tool, scheme, site, soup, load_time, started, done, local,
                   results, run>>

\* Diagnose with the accessibility analyzer taking the image counts from the SEO
\* slot of the results instead of counting the images itself.
DiagnoseSharingImages(category) ==
    CASE category = "seo" -> SeoResult(soup[1])
      [] category = "security" ->
            SecurityResult(scheme = "https", response[1], site.handshake)
      [] category = "performance" -> PerformanceResult(response[1], soup[1], load_time[1])
      [] category = "accessibility" ->
            LET seo == results["seo"]
                counted == "total_images" \in DOMAIN seo
            IN  AccessibilityResult(
                    [soup[1] EXCEPT !.images = IF counted THEN seo.total_images ELSE 0,
                                    !.imagesWithAlt =
                                        IF counted THEN seo.images_with_alt ELSE 0])

\* The category dict an analyzer builds from the stored snapshot.  The security
\* analyzer also makes the TLS handshake with the host.
Diagnose(category) ==
    CASE category = "seo" -> SeoResult(soup[1])
      [] category = "security" ->
            SecurityResult(scheme = "https", response[1], site.handshake)
      [] category = "performance" -> PerformanceResult(response[1], soup[1], load_time[1])
      [] category = "accessibility" -> AccessibilityResult(soup[1])

\* Store with the lists of an earlier run kept in front of the new ones.
StoreExtending(res, category, dict) ==
    LET old == res[category]
    IN  [res EXCEPT ![category] =
            IF DOMAIN old = {} THEN dict
            ELSE [dict EXCEPT !.issues = old.issues \o dict.issues,
                              !.success = old.success \o dict.success,
                              !.explanations = old.explanations \o dict.explanations]]

\* The handshake diagnose_security makes when the URL is https; the other
\* analyzers make none.
Handshaken(category) ==
    IF category = "security" /\ scheme = "https" THEN Some(site.handshake) ELSE tls

\* self.results[category] = dict
Store(res, category, dict) == [res EXCEPT ![category] = dict]

\* Analyzer with the analyzer fetching the page for itself.
AnalyzerRefetching(category, before) ==
    /\ pc = "analyze"
    /\ done = before
    /\ response' = Some(site.response)
    /\ soup' = Some(site.doc)
    /\ load_time' = Some(site.ms)
    /\ fetches' = fetches + 1
    /\ results' = Store(results, category, Diagnose(category))
    /\ tls' = Handshaken(category)
    /\ done' = done \cup {category}
    /\ UNCHANGED <<pdf, st, shown, story, tool, scheme, pc, site, started, local, returned, run, first>>

\* One analyzer called by run_diagnosis, from its first line to its last.
Analyzer(category, before) ==
    /\ pc = "analyze"
    /\ done = before
    /\ results' = Store(results, category, Diagnose(category))
    /\ tls' = Handshaken(category)
    /\ done' = done \cup {category}
    /\ UNCHANGED <<pdf, st, shown, story, tool, scheme, pc, site, response, soup, load_time, started, local,
                   returned, run, fetches, first>>

diagnose_seo == Analyzer("seo", {})
diagnose_security == Analyzer("security", {"seo"})
diagnose_performance == Analyzer("performance", {"seo", "security"})
diagnose_accessibility == Analyzer("accessibility", {"seo", "security", "performance"})

calculate_overall_score ==
    /\ pc = "analyze"
    /\ done = Categories
    /\ results' = [scores |-> scores(results)]
                  @@ [results EXCEPT !.overall_score = overall_score(results)]
    /\ pc' = "scored"
    /\ UNCHANGED <<pdf, st, shown, story, tls, tool, scheme, site, response, soup, load_time, started, done, local,
                   returned, run, fetches, first>>

\* return self.results: the caller receives the dictionary object itself.
ReturnResults ==
    /\ pc = "scored"
    /\ returned' = "self.results"
    /\ first' = Remember("self.results")
    /\ pc' = "returned"
    /\ UNCHANGED <<pdf, st, shown, story, tls, tool, scheme, site, response, soup, load_time, started, done, local,
                   results, run, fetches>>

run_diagnosis ==
    \/ Fetch
    \/ FetchFails
    \/ diagnose_seo
    \/ diagnose_security
    \/ diagnose_performance
    \/ diagnose_accessibility
    \/ calculate_overall_score
    \/ ReturnResults

Next == run_diagnosis

Spec == Init /\ [][Next]_vars

(***************************************************************************)
(* The tool used more than once: a second run_diagnosis call on the same    *)
(* object, or a new object for the same URL, possibly after the site        *)
(* changed.                                                                 *)
(***************************************************************************)
NewCall ==
    /\ pc' = "ready"
    /\ run' = run + 1
    /\ fetches' = 0
    /\ started' = {}
    /\ done' = {}
    /\ local' = NoLocals
    /\ tls' = None
    /\ returned' = "pending"

\* tool.run_diagnosis() again on the object that has already run.
CallAgain ==
    /\ pc = "returned"
    /\ run < MaxRuns
    /\ NewCall
    /\ UNCHANGED <<pdf, st, shown, story, tool, scheme, site, response, soup, load_time, results, first>>

\* WebsiteDiagnosisTool(url).run_diagnosis() on a new object.
NewTool ==
    /\ pc = "returned"
    /\ run < MaxRuns
    /\ NewCall
    /\ tool' = tool + 1
    /\ results' = InitialResults(tool + 1)
    /\ response' = None
    /\ soup' = None
    /\ load_time' = None
    /\ UNCHANGED <<pdf, st, shown, story, scheme, site, first>>

\* Between two runs the host starts serving something else at the same URL.
SiteChanges ==
    /\ pc = "returned"
    /\ run < MaxRuns
    /\ \E s \in FewSites : s.scheme = scheme /\ s # site /\ site' = s
    /\ UNCHANGED <<pdf, st, shown, story, tls, tool, scheme, pc, response, soup, load_time, started, done, local,
                   results, returned, run, fetches, first>>

InitFew == \E s \in FewSites : Constructed(s)

NextRerun == run_diagnosis \/ CallAgain \/ NewTool \/ SiteChanges

SpecRerun == InitFew /\ [][NextRerun]_vars

(***************************************************************************)
(* The four analyzers as concurrent tasks: each builds its category dict in *)
(* its own local variables and then writes its slot, in any interleaving.   *)
(***************************************************************************)
BeginAnalyzer ==
    \E c \in Categories \ started :
        /\ pc = "analyze"
        /\ local' = [local EXCEPT ![c] = Diagnose(c)]
        /\ tls' = Handshaken(c)
        /\ started' = started \cup {c}
        /\ UNCHANGED <<pdf, st, shown, story, tool, scheme, pc, site, response, soup, load_time, done, results,
                       returned, run, fetches, first>>

FinishAnalyzer ==
    \E c \in started \ done :
        /\ pc = "analyze"
        /\ results' = Store(results, c, local[c])
        /\ done' = done \cup {c}
        /\ UNCHANGED <<pdf, st, shown, story, tls, tool, scheme, pc, site, response, soup, load_time, started, local,
                       returned, run, fetches, first>>

NextPar ==
    \/ Fetch
    \/ FetchFails
    \/ BeginAnalyzer
    \/ FinishAnalyzer
    \/ calculate_overall_score
    \/ ReturnResults

SpecPar == InitFew /\ [][NextPar]_vars

(***************************************************************************)
(* calculate_overall_score on its own, over a grid of category scores.      *)
(***************************************************************************)
ScoreGrid == {n \in 0..100 : n % ScoreStep = 0} \cup {100}

Scored(n) == [score |-> n, issues |-> <<>>, success |-> <<>>, explanations |-> <<>>]

InitOverall ==
    \E a \in ScoreGrid, b \in ScoreGrid, c \in ScoreGrid, d \in ScoreGrid :
        /\ site = GoodSite
        /\ tool = 1
        /\ scheme = GoodSite.scheme
        /\ pc = "analyze"
        /\ response = Some(GoodSite.response)
        /\ soup = Some(GoodSite.doc)
        /\ load_time = Some(GoodSite.ms)
        /\ started = {}
        /\ done = Categories
        /\ local = NoLocals
        /\ tls = Some(GoodSite.handshake)
        /\ story = None
        /\ shown = None
        /\ st = BlankPage
        /\ pdf = None
        /\ results = [InitialResults(1) EXCEPT !.seo = Scored(a), !.security = Scored(b),
                                               !.performance = Scored(c),
                                               !.accessibility = Scored(d)]
        /\ returned = "pending"
        /\ run = 1
        /\ fetches = 1
        /\ first = None

NextOverall == calculate_overall_score \/ ReturnResults

SpecOverall == InitOverall /\ [][NextOverall]_vars

(***************************************************************************)
(* Properties.                                                              *)
(***************************************************************************)
Snapshot == <<response, soup, load_time>>

\* C1: once an analyzer has run, the score it recorded for its category is an
\* integer from 0 to 100, whichever rules passed or failed.
C1_ScoresInRange == \A c \in done : results[c].score \in 0..100

C1_Witness ==
    /\ done = Categories
    /\ results["security"].score = 100
    /\ results["performance"].score = 0

\* C2: the overall score, in tenths, is 3*SEO + 3*Security + 2*Performance +
\* 2*Accessibility, and so lies between 0 and 100 points.
C2_OverallIsWeightedSum ==
    pc \in {"scored", "returned"} =>
        /\ results.overall_score =
              3 * results["seo"].score + 3 * results["security"].score
              + 2 * results["performance"].score + 2 * results["accessibility"].score
        /\ results.overall_score \in 0..1000

C2_Witness ==
    /\ pc = "scored"
    /\ results["seo"].score = 100
    /\ results["security"].score = 0
    /\ results["performance"].score = 50
    /\ results["accessibility"].score = 30
    /\ results.overall_score = 460

\* A results record with all four categories filled in and scored.
Complete(res) ==
    /\ \A c \in Categories : {"score", "issues", "success"} \subseteq DOMAIN res[c]
    /\ "scores" \in DOMAIN res
    /\ res.scores = scores(res)
    /\ res.overall_score = overall_score(res)

\* C3: run_diagnosis returns either None or a record with all four categories
\* filled in and the overall score computed from them; when the fetch fails no
\* analyzer has run and no category of the record is filled in.
C3_AllOrNothing ==
    /\ returned \in {"pending", "None", "self.results"}
    /\ returned = "self.results" => Complete(results)
    /\ returned = "None" => done = {} /\ \A c \in Categories : results[c] = EmptyDict

C3_Witness ==
    /\ pc = "returned"
    /\ returned = "self.results"
    /\ results["seo"].issues # <<>>
    /\ results.overall_score > 0

\* C4: when the fetch fails, diagnose() raises and so returns no value.
C4_FetchFailureRaises ==
    (fetches > 0 /\ response = None) => returned = "pending"

\* C5: a response with a status outside 200..299 is a failed fetch: no analyzer
\* runs on it and no scored record is returned.
C5_Non2xxIsFailure ==
    (response # None /\ response[1].status \notin 200..299) =>
        done = {} /\ returned # "self.results"

\* C6: a run that read the same snapshot and got the same TLS answer as the first
\* run ends with the same four category results and the same overall score, on
\* the same object or on a new one.
C6_Idempotent ==
    (/\ first # None
     /\ run > 1
     /\ pc = "returned"
     /\ returned = "self.results"
     /\ first[1].ret = "self.results"
     /\ first[1].snapshot = Snapshot
     /\ first[1].tls = tls)
    => /\ \A c \in Categories : results[c] = first[1].record[c]
       /\ results.overall_score = first[1].record.overall_score
       /\ results.scores = first[1].record.scores

C6_Witness ==
    /\ first # None
    /\ run = 2
    /\ tool = 1
    /\ pc = "returned"
    /\ returned = "self.results"
    /\ first[1].ret = "self.results"
    /\ first[1].snapshot = Snapshot
    /\ first[1].tls = tls
    /\ results["seo"].issues # <<>>
    /\ results["security"].issues # <<>>

\* C7: in every interleaving of the four analyzers, a slot an analyzer has written
\* holds what that analyzer computes from the snapshot alone, and a slot whose
\* analyzer has not finished is still empty.
C7_OrderIndependent ==
    pc = "analyze" =>
        /\ \A c \in done : results[c] = Diagnose(c)
        /\ \A c \in Categories \ done : results[c] = EmptyDict

C7_Witness ==
    /\ pc = "analyze"
    /\ done = {"accessibility", "performance"}
    /\ started = {"accessibility", "performance", "seo"}
    /\ soup[1].images > 0

\* What a fetch of the site stores on the object.
Fetched == <<Some(site.response), Some(site.doc), Some(site.ms)>>

\* A step taken while the analyzers or the aggregator run: one fetch was made,
\* none is made now, and the snapshot is the fetched one before and after.
FrozenStep ==
    pc \in {"analyze", "scored"} =>
        /\ fetches = 1
        /\ fetches' = fetches
        /\ Snapshot = Fetched
        /\ Snapshot' = Snapshot

\* C8: while the analyzers and the aggregator run, the page has been fetched
\* exactly once and no step fetches again or changes the stored response,
\* document or fetch duration.
C8_SnapshotFrozen == [][FrozenStep]_vars

C8_Witness ==
    /\ pc = "scored"
    /\ done = Categories
    /\ fetches = 1
    /\ Snapshot = Fetched

\* C9: the record the first call returned never changes afterwards, whatever is
\* done with the tool object that returned it.
C9_ReturnedRecordImmutable ==
    (first # None /\ first[1].ret = "self.results" /\ first[1].tool = tool)
    => results = first[1].record

\* Every SEO rule passes on the document.
AllSeoRulesPass(doc) ==
    /\ doc.titleLen \in 30..60
    /\ doc.descLen \in 120..160
    /\ Count(doc.headings, 1) = 1
    /\ Count(doc.headings, 2) >= 1
    /\ doc.images > 0
    /\ doc.imagesWithAlt = doc.images
    /\ doc.ogTags > 0
    /\ doc.twitterTags > 0
    /\ doc.canonical
    /\ doc.internalLinks > 0
    /\ doc.jsonLd > 0

\* C10 as stated: when every SEO rule passes, diagnose_seo records score 100 and
\* no issue.
C10_AllPassScores100 ==
    ("seo" \in done /\ AllSeoRulesPass(soup[1])) =>
        results["seo"].score = 100 /\ results["seo"].issues = <<>>

\* C10 amended: when every SEO rule passes, diagnose_seo records score 95, the
\* sum of the ten awards, and no issue.
C10_AllPassScores95 ==
    ("seo" \in done /\ AllSeoRulesPass(soup[1])) =>
        results["seo"].score = 95 /\ results["seo"].issues = <<>>

C10_Witness ==
    /\ "seo" \in done
    /\ AllSeoRulesPass(soup[1])
    /\ soup[1].titleLen = 60
    /\ soup[1].descLen = 120
    /\ results["seo"].score = 95

\* C11: for an https URL whose response carries none of the seven security
\* headers and whose TLS handshake succeeds, diagnose_security records score 30,
\* exactly seven issues, one "<header> header not set" per header, and exactly
\* one "Valid SSL certificate" success entry.
C11_HttpsOnlyScores30 ==
    ("security" \in done /\ scheme = "https" /\ response[1].headers = {}
        /\ tls = Some("ok")) =>
        /\ results["security"].score = 30
        /\ results["security"].issues =
               [i \in 1..7 |-> Entry(SecurityHeaders[i] \o " header not set", <<>>)]
        /\ Count(results["security"].success, Entry("Valid SSL certificate", <<>>)) = 1

C11_Witness ==
    /\ returned = "self.results"
    /\ scheme = "https"
    /\ response[1].headers = {}
    /\ tls = Some("ok")
    /\ results["security"].score = 30
    /\ Len(results["security"].issues) = 7

(***************************************************************************)
(* The image-alt tiers of diagnose_seo: the tool run on pages that differ   *)
(* only in their img elements, over every (total, with alt) pair up to      *)
(* MaxAltImages and around the two thresholds at a total of 100.            *)
(***************************************************************************)
AltPairs ==
    {<<n, a>> \in (0..MaxAltImages) \X (0..MaxAltImages) : a <= n}
    \cup {<<100, a>> : a \in {69, 70, 71, 89, 90, 91}}

AltSites ==
    {WithDoc(GoodSite, [GoodDoc EXCEPT !.images = im[1], !.imagesWithAlt = im[2]]) :
        im \in AltPairs}
    \cup {[GoodSite EXCEPT !.parses = FALSE]}

InitAlt == \E s \in AltSites : Constructed(s)

SpecAlt == InitAlt /\ [][Next]_vars

\* What the other nine SEO checks add on the pages of AltSites, which pass all
\* of them: 15 + 15 + 10 + 5 + 10 + 5 + 5 + 5 + 10 points, eight success entries
\* and no issue.
C12_Tier(a, n) ==
    IF n = 0 THEN [points |-> 0, issues |-> 0, success |-> 0]
    ELSE IF 10 * a >= 9 * n THEN [points |-> 15, issues |-> 0, success |-> 1]
    ELSE IF 10 * a >= 7 * n THEN [points |-> 10, issues |-> 1, success |-> 0]
    ELSE [points |-> 0, issues |-> 1, success |-> 0]

\* C12: with a of n images carrying a non-empty alt, the SEO image-alt check
\* awards 15 and one success when 10a >= 9n, 10 and one issue when
\* 7n <= 10a < 9n, nothing and one issue when 10a < 7n, and nothing at all when
\* n = 0; 9/10 is in the first tier and 89/100 in the second.
C12_AltTiers ==
    "seo" \in done =>
        LET a == soup[1].imagesWithAlt
            n == soup[1].images
            t == C12_Tier(a, n)
            seo == results["seo"]
        IN  /\ seo.score = 80 + t.points
            /\ Len(seo.issues) = t.issues
            /\ Len(seo.explanations) = t.issues
            /\ Len(seo.success) = 8 + t.success
            /\ (a = 9 /\ n = 10) => seo.score = 95 /\ seo.issues = <<>>
            /\ (a = 89 /\ n = 100) =>
                   /\ seo.score = 90
                   /\ seo.issues = <<Entry("Some images missing alt attributes ({}/{})",
                                           <<89, 100>>)>>

C12_Witness ==
    /\ "seo" \in done
    /\ soup[1].imagesWithAlt = 89
    /\ soup[1].images = 100
    /\ results["seo"].score = 90
    /\ Len(results["seo"].issues) = 1

(***************************************************************************)
(* PDFReportGenerator._add_recommendations, on the record a completed run   *)
(* returned.  An issue is the text its msg stands for once the arguments    *)
(* are formatted in.                                                        *)
(***************************************************************************)
\* The categories list, in the order it is written.
categories == <<"security", "accessibility", "seo", "performance">>

cat_name(cat_key) ==
    CASE cat_key = "security" -> "Security"
      [] cat_key = "accessibility" -> "Accessibility"
      [] cat_key = "seo" -> "SEO"
      [] cat_key = "performance" -> "Performance"

\* categories_sorted with the best category first: descending by score.
categories_sortedDescending(res) ==
    LET p == CHOOSE q \in [1..4 -> 1..4] :
                 /\ \A i, j \in 1..4 : i # j => q[i] # q[j]
                 /\ \A i, j \in 1..4 : i < j =>
                        LET si == res[categories[q[i]]].score
                            sj == res[categories[q[j]]].score
                        IN  si > sj \/ (si = sj /\ q[i] < q[j])
    IN  [i \in 1..4 |-> categories[p[i]]]

\* sorted(categories, key=lambda x: x[2]['score']): ascending by score, and
\* categories of equal score stay in the order of the list (the sort is stable).
categories_sorted(res) ==
    LET p == CHOOSE q \in [1..4 -> 1..4] :
                 /\ \A i, j \in 1..4 : i # j => q[i] # q[j]
                 /\ \A i, j \in 1..4 : i < j =>
                        LET si == res[categories[q[i]]].score
                            sj == res[categories[q[j]]].score
                        IN  si < sj \/ (si = sj /\ q[i] < q[j])
    IN  [i \in 1..4 |-> categories[p[i]]]

\* seq[:n]
Take(seq, n) == SubSeq(seq, 1, Min(Len(seq), n))

\* all_issues after the first k categories of categories_sorted were visited:
\* up to three issues of each, numbered by the running priority counter.
RECURSIVE all_issues(_, _)
all_issues(res, k) ==
    IF k = 0 THEN <<>>
    ELSE LET before == all_issues(res, k - 1)
             cat_key == categories_sorted(res)[k]
             top == Take(res[cat_key].issues, 3)
         IN  before \o [i \in 1..Len(top) |->
                           [priority |-> Len(before) + i,
                            category |-> cat_name(cat_key),
                            issue |-> top[i]]]

RECURSIVE Digits(_)
Digits(n) == IF n < 10 THEN 1 ELSE 1 + Digits(n \div 10)

\* The texts whose number is a float rounded to two decimals, held in
\* hundredths.
DecimalTexts ==
    {"Fast page load time ({}s)", "Page load time is slightly slow ({}s)",
     "Page load time is slow ({}s)", "Page load time is very slow ({}s)",
     "Appropriate page size ({}KB)", "Page size is slightly large ({}KB)",
     "Page size is large ({}MB)", "Page size is very large ({}MB)"}

\* len(str(x)) of the float x = hundredths / 100: the integer part, the point
\* and one decimal when the second is 0 (1.5, 2.0), two otherwise (1.25).
FloatLen(hundredths) ==
    Digits(hundredths \div 100) + 1 + (IF hundredths % 10 = 0 THEN 1 ELSE 2)

\* len(issue): each {} of msg gives way to the text of its argument.
RECURSIVE TextLen(_)
TextLen(issue) ==
    IF issue.args = <<>> THEN Len(issue.msg)
    ELSE TextLen(Entry(issue.msg, Tail(issue.args)))
         + (IF issue.msg \in DecimalTexts THEN FloatLen(Head(issue.args))
            ELSE Digits(Head(issue.args))) - 2

\* issue[:60] + ('...' if len(issue) > 60 else '')
issue_short(issue) ==
    [issue |-> issue, chars |-> Min(TextLen(issue), 60), ellipsis |-> TextLen(issue) > 60]

priority_symbol(priority) ==
    IF priority <= 3 THEN "HIGH" ELSE IF priority <= 6 THEN "MED" ELSE "LOW"

\* rec_data: the header row and one row for each of the first ten issues.
rec_data(res) ==
    LET listed == Take(all_issues(res, Len(categories)), 10)
    IN  <<<<"Priority", "Category", "Issue">>>> \o
        [i \in 1..Len(listed) |->
            <<[symbol |-> priority_symbol(listed[i].priority),
               priority |-> listed[i].priority],
              listed[i].category,
              issue_short(listed[i].issue)>>]

\* What the method appends to self.story: the heading, a spacer and the table.
_add_recommendations ==
    /\ pc = "returned"
    /\ returned = "self.results"
    /\ story = None
    /\ story' = Some(<<[Paragraph |-> "Priority Action Items"],
                       [Spacer |-> 5],
                       [Table |-> rec_data(results)]>>)
    /\ UNCHANGED <<pdf, st, tool, scheme, pc, response, soup, load_time, site, started, done,
                   local, tls, shown, results, returned, run, fetches, first>>

\* PDFReportGenerator(results)._add_recommendations() on the record of a
\* completed run: the method called on its own.  generate, which calls the
\* page methods before it, is the action generate below.
NextReport == run_diagnosis \/ _add_recommendations

SpecReport == Init /\ [][NextReport]_vars

\* The rows of the recommendation table below its header row.
Rows == Tail(story[1][3].Table)

\* The priority value the ranking is specified by, in tenths:
\* (100 - category score) x weight, with weights 1.5, 1.3, 1.2 and 1.0.
C13_Priority(name) ==
    CASE name = "Security" -> (100 - results["security"].score) * 15
      [] name = "Accessibility" -> (100 - results["accessibility"].score) * 13
      [] name = "SEO" -> (100 - results["seo"].score) * 12
      [] name = "Performance" -> (100 - results["performance"].score) * 10

\* C13: the recommendation list is in descending order of priority: of any two
\* listed issues, the one whose category has the strictly larger value of
\* (100 - score) x weight has the smaller rank.
C13_RankedByPriority ==
    story # None =>
        \A i, j \in 1..Len(Rows) :
            C13_Priority(Rows[i][2]) > C13_Priority(Rows[j][2]) =>
                Rows[i][1].priority < Rows[j][1].priority

\* C14: when no category has an issue, the recommendation step reports "no
\* issues found" instead of a table without recommendation rows.
C14_EmptyPoolReported ==
    (story # None /\ \A c \in Categories : results[c].issues = <<>>) =>
        /\ \E i \in 1..Len(story[1]) :
               /\ "Paragraph" \in DOMAIN story[1][i]
               /\ story[1][i].Paragraph = "No issues found"
        /\ \A i \in 1..Len(story[1]) :
               "Table" \in DOMAIN story[1][i] => Len(story[1][i].Table) > 1

(***************************************************************************)
(* The finding localizer.  A finding text is a sequence of fragments, a     *)
(* phrase or a number such as "68/118"; a key of the mapping is a sequence   *)
(* of phrases and occurs in a text where it is a contiguous part of it.     *)
(***************************************************************************)
Fragments == {"Title", "alt", "missing", "68/118"}

\* The static mapping, in insertion order.
Mapping ==
    <<[key |-> <<"Title", "missing">>, term |-> <<"title-missing-ja">>],
      [key |-> <<"alt">>, term |-> <<"alt-ja">>],
      [key |-> <<"alt", "missing">>, term |-> <<"alt-missing-ja">>]>>

\* The positions at which key starts in text.
Occurrences(key, text) ==
    {p \in 1..(Len(text) - Len(key) + 1) : SubSeq(text, p, p + Len(key) - 1) = key}

\* The first entry whose key occurs in text keeping only its term.
LocalizeDiscarding(text) ==
    LET exact == {i \in 1..Len(Mapping) : Mapping[i].key = text}
        found == {i \in 1..Len(Mapping) : Occurrences(Mapping[i].key, text) # {}}
    IN  IF exact # {}
        THEN Mapping[CHOOSE i \in exact : \A j \in exact : i <= j].term
        ELSE IF found # {}
        THEN Mapping[CHOOSE i \in found : \A j \in found : i <= j].term
        ELSE text

\* Exact match first; else the first entry, in insertion order, whose key occurs
\* in the text, that occurrence giving way to the entry's term; else the text.
Localize(text) ==
    LET exact == {i \in 1..Len(Mapping) : Mapping[i].key = text}
        found == {i \in 1..Len(Mapping) : Occurrences(Mapping[i].key, text) # {}}
    IN  IF exact # {}
        THEN Mapping[CHOOSE i \in exact : \A j \in exact : i <= j].term
        ELSE IF found # {}
        THEN LET i == CHOOSE k \in found : \A j \in found : k <= j
                 occ == Occurrences(Mapping[i].key, text)
                 p == CHOOSE q \in occ : \A r \in occ : q <= r
             IN  SubSeq(text, 1, p - 1) \o Mapping[i].term \o
                 SubSeq(text, p + Len(Mapping[i].key), Len(text))
        ELSE text

Texts == UNION {[1..n -> Fragments] : n \in 1..MaxTextLen}

ShowFinding ==
    /\ shown = None
    /\ \E text \in Texts : shown' = Some([text |-> text, localized |-> Localize(text)])
    /\ UNCHANGED <<pdf, st, tool, scheme, pc, response, soup, load_time, site, started, done,
                   local, tls, story, results, returned, run, fetches, first>>

NextLocalize == ShowFinding

SpecLocalize == InitFew /\ [][NextLocalize]_vars

\* C15: a finding text in which no key of the mapping occurs is shown
\* unchanged, and a text in which a key occurs next to a number the mapping
\* does not cover is shown with that number still in it.
C15_LocalizerFallsBack ==
    shown # None =>
        LET text == shown[1].text
            localized == shown[1].localized
            mapped == \E i \in 1..Len(Mapping) : Occurrences(Mapping[i].key, text) # {}
        IN  /\ ~mapped => localized = text
            /\ mapped => Count(localized, "68/118") = Count(text, "68/118")

C15_Witness ==
    /\ shown # None
    /\ shown[1].text = <<"alt", "missing", "68/118">>
    /\ shown[1].localized = <<"alt-ja", "missing", "68/118">>

\* The points the specification gives each security header.
SpecifiedPoints(header) ==
    CASE header = "Strict-Transport-Security" -> 15
      [] header = "X-Frame-Options" -> 10
      [] header = "X-Content-Type-Options" -> 10
      [] header = "X-XSS-Protection" -> 5
      [] header = "Content-Security-Policy" -> 20
      [] header = "Referrer-Policy" -> 5
      [] header = "Permissions-Policy" -> 5

RECURSIVE SpecifiedSum(_)
SpecifiedSum(present) ==
    IF present = {} THEN 0
    ELSE LET h == CHOOSE x \in present : TRUE
         IN  SpecifiedPoints(h) + SpecifiedSum(present \ {h})

\* C16: the TLS handshake is attempted only for an https URL; when it fails,
\* for whatever reason, diagnose_security appends the failure as exactly one
\* issue and still records its score (the sub-check adding nothing), and the
\* run goes on to the other analyzers and the aggregator and returns the record.
C16_TlsFailureAbsorbed ==
    /\ tls # None => scheme = "https"
    /\ ("security" \in done /\ scheme = "https") => tls # None
    /\ (tls # None /\ tls[1] # "ok") =>
           LET security == results["security"]
               failure == Entry("SSL certificate check failed: " \o tls[1], <<>>)
           IN  /\ "security" \in done
               /\ Count(security.issues, failure) = 1
               /\ Len(security.issues) = 1 + Cardinality(AllSecurityHeaders \ response[1].headers)
               /\ security.score = 30 + SpecifiedSum(response[1].headers)
               /\ security.ssl_certificate = None
               /\ returned # "None"
               /\ pc = "returned" =>
                      /\ returned = "self.results"
                      /\ done = Categories
                      /\ "scores" \in DOMAIN results
                      /\ results.scores.security = security.score

C16_Witness ==
    /\ tls = Some("[Errno -2] Name or service not known")
    /\ pc = "returned"
    /\ returned = "self.results"
    /\ done = Categories
    /\ Len(results["security"].issues) = 1

\* C20: for either scheme and every set of security headers present, the
\* security score is 30 for https plus the specified points of the headers
\* present; each absent header adds exactly one issue, with an explanation
\* only for Strict-Transport-Security, X-Frame-Options and
\* Content-Security-Policy.
C20_SecurityScore ==
    "security" \in done =>
        LET security == results["security"]
            present == response[1].headers
            explained == {"Strict-Transport-Security", "X-Frame-Options",
                          "Content-Security-Policy"}
        IN  /\ security.score =
                   (IF scheme = "https" THEN 30 ELSE 0) + SpecifiedSum(present)
            /\ \A h \in AllSecurityHeaders :
                   /\ Count(security.issues, Entry(h \o " header not set", <<>>)) =
                          IF h \in present THEN 0 ELSE 1
                   /\ Cardinality({i \in 1..Len(security.explanations) :
                                      security.explanations[i].issue = h \o " missing"}) =
                          IF h \notin present /\ h \in explained THEN 1 ELSE 0
            /\ Len(security.issues) =
                   Cardinality(AllSecurityHeaders \ present)
                   + (IF scheme = "https" THEN 0 ELSE 1)
                   + (IF tls # None /\ tls[1] # "ok" THEN 1 ELSE 0)
            /\ Len(security.explanations) =
                   Cardinality(explained \ present) + (IF scheme = "https" THEN 0 ELSE 1)

C20_Witness ==
    /\ "security" \in done
    /\ scheme = "http"
    /\ response[1].headers = {"Content-Security-Policy", "X-XSS-Protection"}
    /\ results["security"].score = 25
    /\ Len(results["security"].issues) = 6
    /\ Len(results["security"].explanations) = 3

(***************************************************************************)
(* Termination.  run_diagnosis is sequential code, so a step that can be    *)
(* taken is taken: weak fairness of Next.  The hosts include page hosts     *)
(* that never answer and TLS hosts whose handshake times out.               *)
(***************************************************************************)
SilentSites == {[s EXCEPT !.answers = FALSE] : s \in FewSites}

\* Every outcome of the handshake, behind responses with all, one and none of
\* the security headers.
HandshakeSites ==
    {[GoodSite EXCEPT !.handshake = hs, !.response.headers = hd] :
        hs \in {"ok"} \cup HandshakeErrors,
        hd \in {{}, {"X-Frame-Options"}, AllSecurityHeaders}}

InitLive == \E s \in FewSites \cup HandshakeSites \cup SilentSites : Constructed(s)

SpecLive == InitLive /\ [][Next]_vars /\ WF_vars(Next)

\* C17: every run terminates, returning the record or the failure outcome,
\* also when the page host or the TLS host never answers; a run makes one page
\* fetch and, for https, one TLS handshake as its only network operations.
C17_RunTerminates ==
    /\ [](fetches <= 1 /\ (tls # None => scheme = "https" /\ response # None))
    /\ <>(pc = "returned" /\ returned \in {"self.results", "None"})

C17_Witness ==
    /\ pc = "returned"
    /\ ~site.answers
    /\ fetches = 1
    /\ returned = "None"

\* 1 when the condition holds, else 0.
One(cond) == IF cond THEN 1 ELSE 0

\* The sub-checks each analyzer evaluates on a page: the image checks only when
\* the page has images, the form-label check only when it has form controls,
\* the TLS check only for https.
EvaluatedChecks(category) ==
    CASE category = "seo" -> 9 + One(soup[1].images > 0)
      [] category = "security" -> 8 + One(scheme = "https")
      [] category = "performance" -> 5
      [] category = "accessibility" ->
            6 + One(soup[1].images > 0) + One(soup[1].inputs > 0)

\* C18: in every category result each evaluated sub-check has added exactly one
\* entry, to issues or to success, so that the two lists together hold one
\* entry per evaluated sub-check.
C18_OneEntryPerCheck ==
    \A c \in done :
        Len(results[c].issues) + Len(results[c].success) = EvaluatedChecks(c)

\* The SEO rules that do not award their points on a page.
RulesNotAwarded(doc) ==
    One(~(30 <= doc.titleLen /\ doc.titleLen <= 60))
    + One(~(120 <= doc.descLen /\ doc.descLen <= 160))
    + One(Count(doc.headings, 1) # 1)
    + One(Count(doc.headings, 2) = 0)
    + One(doc.images > 0 /\ 10 * doc.imagesWithAlt < 9 * doc.images)
    + One(doc.ogTags = 0)
    + One(doc.twitterTags = 0)
    + One(~doc.canonical)
    + One(doc.internalLinks = 0)
    + One(doc.jsonLd = 0)

\* C19: every SEO rule that does not award its points appends an issue; in
\* particular the absence of Open Graph tags, of Twitter Card tags, of the
\* canonical link, of internal links and of a parseable JSON-LD block each add
\* one.
C19_OmissionIsIssue ==
    "seo" \in done => Len(results["seo"].issues) = RulesNotAwarded(soup[1])

\* C21: the performance score is the sum of the five tier awards, with
\* half-open tiers: a fetch time or byte size exactly on a boundary is in the
\* lower-scoring tier, and every fetch-time or size tier but the best adds an
\* issue.
C21_PerformanceTiers ==
    "performance" \in done =>
        LET performance == results["performance"]
            t == load_time[1]
            s == response[1].size
            r == performance.resources
            n == r.scripts + r.stylesheets + r.images + r.iframes
            KiB == 1024
            MiB == 1024 * 1024
            time == IF t < 1000 THEN 30 ELSE IF t < 2000 THEN 20
                    ELSE IF t < 3000 THEN 10 ELSE 0
            size == IF s < 500 * KiB THEN 20 ELSE IF s < MiB THEN 15
                    ELSE IF s < 3 * MiB THEN 5 ELSE 0
            count == IF n < 30 THEN 15 ELSE IF n < 50 THEN 10 ELSE 0
            encoded == response[1].encoding \in {Some("gzip"), Some("br"), Some("deflate")}
            cached == response[1].cacheControl
        IN  /\ performance.score =
                   time + size + count + (IF encoded THEN 15 ELSE 0)
                   + (IF cached THEN 10 ELSE 0)
            /\ Len(performance.issues) =
                   One(time < 30) + One(size < 20) + One(count = 0)
                   + One(~encoded) + One(~cached)
            /\ Len(performance.success) = 5 - Len(performance.issues)

C21_Witness ==
    /\ "performance" \in done
    /\ load_time[1] = 1000
    /\ response[1].size = 500 * 1024
    /\ response[1].encoding = Some("identity")
    /\ results["performance"].resources.scripts = 30
    /\ results["performance"].score = 20 + 15 + 10 + 10
    /\ Len(results["performance"].issues) = 3

\* C22: the heading-hierarchy check reads the headings in document order: when
\* some heading is more than one level below the heading just before it the
\* check adds the hierarchy issue and no success; when there is no such jump
\* and the page has a heading it adds the success and no issue.
C22_HeadingsInDocumentOrder ==
    "accessibility" \in done =>
        LET h == soup[1].headings
            jump == \E i \in 1..(Len(h) - 1) : h[i + 1] - h[i] > 1
            accessibility == results["accessibility"]
            issue == Count(accessibility.issues,
                           Entry("Heading hierarchy issues (e.g., h4 after h2)", <<>>))
            success == Count(accessibility.success, Entry("Proper heading hierarchy", <<>>))
        IN  /\ jump => issue = 1 /\ success = 0
            /\ (~jump /\ Len(h) > 0) => issue = 0 /\ success = 1

\* C23: the link-text check has two outcomes: a page with links none of which
\* is empty gets the success; every other page, one without links included,
\* gets an issue naming the number of empty links and no success.
C23_LinkTextTwoOutcomes ==
    "accessibility" \in done =>
        LET links == soup[1].links
            empty == soup[1].emptyLinks
            accessibility == results["accessibility"]
            issue == Count(accessibility.issues, Entry("{} links without text", <<empty>>))
            success == Count(accessibility.success, Entry("All links have text", <<>>))
        IN  IF links > 0 /\ empty = 0
            THEN issue = 0 /\ success = 1
            ELSE issue = 1 /\ success = 0

(***************************************************************************)
(* streamlit_app.py: one script run after the diagnose button is pressed.   *)
(* Texts written to the page are named by the call that writes them; the    *)
(* Japanese wording is not modelled.                                        *)
(***************************************************************************)
\* Keys the script has set in st.session_state.
InSession(key) == key \in DOMAIN st.session_state

\* The URLs typed into the text input: none, one that urlparse accepts, and
\* one that it rejects (an unclosed bracket: ValueError "Invalid IPv6 URL").
Urls == {"", "url", "http://["}

\* What a script run starts from: the sidebar has stored show_help for the
\* checkbox as it stands, and nothing of the earlier run is left on the page.
Sidebar(help) ==
    [st EXCEPT !.session_state = [st.session_state EXCEPT !.show_help = help],
               !.messages = <<>>, !.view = None, !.raised = None]

\* The label of the overall score card; overall_score is held in tenths.
score_label(overall) ==
    IF overall >= 800 THEN "Excellent"
    ELSE IF overall >= 600 THEN "Good"
    ELSE IF overall >= 400 THEN "Average"
    ELSE "Poor"

\* One tab: every issue in list order, under it explanations[idx] when the
\* help mode is on and idx < len(explanations); then the success items.
Tab(data, show_help) ==
    [issues |-> [i \in 1..Len(data.issues) |->
                    [issue |-> data.issues[i],
                     expander |-> IF show_help /\ i <= Len(data.explanations)
                                  THEN Some(data.explanations[i]) ELSE None]],
     success |-> data.success]

\* 'risk' in exp['explanation']: the explanations of _get_explanations that
\* have a risk text, all of them security ones.
has_risk(exp) ==
    exp.explanation \in {<<"security", "https">>,
                         <<"security", "Strict-Transport-Security">>,
                         <<"security", "X-Frame-Options">>,
                         <<"security", "Content-Security-Policy">>}

\* The st.error calls of the security tab after its first n issues: one for
\* each expander shown whose explanation has a risk text.
RECURSIVE Risks(_, _, _)
Risks(data, show_help, n) ==
    IF n = 0 THEN <<>>
    ELSE Risks(data, show_help, n - 1) \o
         (IF show_help /\ n <= Len(data.explanations) /\ has_risk(data.explanations[n])
          THEN <<[call |-> "st.error",
                  text |-> "risk: " \o data.explanations[n].explanation[2]]>>
          ELSE <<>>)

\* The handler of the PDF button in the download section: st.success when
\* create_english_pdf_report returned the path of a readable file, st.error
\* when it or the reading raised.
PdfButtons == {"not pressed", "generated", "failed"}

Download(pdf_button) ==
    IF pdf_button = "generated"
    THEN <<[call |-> "st.success", text |-> "PDF report generated"]>>
    ELSE IF pdf_button = "failed"
    THEN <<[call |-> "st.error", text |-> "PDF generation failed"]>>
    ELSE <<>>

\* The result section of the script on a page whose session holds the key
\* diagnosis_result: it calls result.get on the stored value, shows the
\* scores and the four tabs, then the download section.
ResultSection(page, pdf_button) ==
    LET stored == page.session_state.diagnosis_result
        show_help == page.session_state.show_help
    IN  IF stored = None
        THEN [page EXCEPT !.raised =
                 Some("AttributeError: 'NoneType' object has no attribute 'get'")]
        ELSE LET result == stored[1]
             IN  [page EXCEPT
                     !.messages = @ \o Risks(result.security, show_help,
                                             Len(result.security.issues))
                                    \o Download(pdf_button),
                     !.view =
                         Some([overall_score |-> result.overall_score,
                               score_label |-> score_label(result.overall_score),
                               scores |-> result.scores,
                               tabs |-> [c \in Categories |-> Tab(result[c], show_help)]])]

\* The rest of a script run after the sidebar and the button handler: the
\* result section runs whenever the session holds the key diagnosis_result.
RestOfScript(page, pdf_button) ==
    IF "diagnosis_result" \in DOMAIN page.session_state
    THEN ResultSection(page, pdf_button) ELSE page

\* The pages a URL typed for a later diagnosis may lead to: the page diagnosed
\* before, or another one.
AgainSites == {site} \cup BaseSites

\* A script run with the diagnose button pressed, up to the call of
\* tool.diagnose(); the button is on the page in every script run, whether or
\* not a diagnosis has returned before.  The handler refuses an empty URL;
\* for a URL that urlparse rejects WebsiteDiagnosisTool(url) raises inside the
\* try and the except branch reports it; in both cases nothing is stored and
\* the script goes on to the result section, which shows the result of an
\* earlier diagnosis when the session holds one.  Otherwise the handler
\* builds a WebsiteDiagnosisTool for the URL (the object of the initial state
\* at the first diagnosis, a new one at every later diagnosis) and waits in
\* tool.diagnose(), the session still holding the earlier result.
ButtonPressed ==
    /\ st.script = "done"
    /\ \E help \in BOOLEAN, url \in Urls :
        IF url \in {"", "http://["}
        THEN /\ st' = RestOfScript(
                         [Sidebar(help) EXCEPT
                             !.messages = <<[call |-> "st.error",
                                             text |-> IF url = "" THEN "enter a URL"
                                                      ELSE "error: Invalid IPv6 URL"]>>],
                         "not pressed")
             /\ UNCHANGED <<tool, scheme, pc, response, soup, load_time, site, started,
                            done, local, tls, results, returned, run, fetches>>
        ELSE /\ st' = [Sidebar(help) EXCEPT !.script = "handler"]
             /\ \/ /\ pc = "ready"
                   /\ UNCHANGED <<tool, scheme, pc, response, soup, load_time, site,
                                  started, done, local, tls, results, returned, run,
                                  fetches>>
                \/ /\ pc = "returned"
                   /\ run < MaxRuns
                   /\ NewCall
                   /\ tool' = tool + 1
                   /\ results' = InitialResults(tool + 1)
                   /\ response' = None
                   /\ soup' = None
                   /\ load_time' = None
                   /\ \E s \in AgainSites : site' = s /\ scheme' = s.scheme
    /\ UNCHANGED <<pdf, story, shown, first>>

\* tool.diagnose() has returned to the handler: it stores whatever was
\* returned, and the URL, and reports success (diagnose() returns None after a
\* failed fetch, it does not raise).
diagnose_button ==
    /\ st.script = "handler"
    /\ pc = "returned"
    /\ st' = [st EXCEPT
                !.session_state =
                    [show_help |-> st.session_state.show_help,
                     diagnosis_result |-> IF returned = "self.results"
                                          THEN Some(results) ELSE None,
                     diagnosis_url |-> "url"],
                !.messages = <<[call |-> "st.success", text |-> "diagnosis completed"]>>,
                !.script = "section"]
    /\ UNCHANGED <<pdf, tool, scheme, pc, response, soup, load_time, site, started, done,
                   local, tls, story, shown, results, returned, run, fetches, first>>

\* The result section in the script run of the diagnose button, after the
\* handler.
show_result ==
    /\ st.script = "section"
    /\ st' = [RestOfScript(st, "not pressed") EXCEPT !.script = "done"]
    /\ UNCHANGED <<pdf, tool, scheme, pc, response, soup, load_time, site, started, done,
                   local, tls, story, shown, results, returned, run, fetches, first>>

\* A script run in which neither the diagnose button nor the PDF button is
\* pressed (the checkbox was clicked, the URL field edited, the JSON file
\* downloaded): the sidebar stores show_help as the checkbox stands, the
\* messages of the run before are gone, and the result section runs again
\* when the session holds a result.
script_rerun ==
    /\ st.script = "done"
    /\ \E help \in BOOLEAN : st' = RestOfScript(Sidebar(help), "not pressed")
    /\ UNCHANGED <<pdf, tool, scheme, pc, response, soup, load_time, site, started, done,
                   local, tls, story, shown, results, returned, run, fetches, first>>

\* A script run started by the PDF button, which is on the page when the
\* result section was shown; the checkbox stands as it stood.  What
\* create_english_pdf_report does is an input.
pdf_button ==
    /\ st.script = "done"
    /\ st.view # None
    /\ \E outcome \in PdfButtons \ {"not pressed"} :
           st' = RestOfScript(Sidebar(st.session_state.show_help), outcome)
    /\ UNCHANGED <<pdf, tool, scheme, pc, response, soup, load_time, site, started, done,
                   local, tls, story, shown, results, returned, run, fetches, first>>

\* The script runs of one browser session, one after another.  The diagnosis
\* runs inside the handler, between the sidebar and the writes of the handler.
\* The names the script imports at lines 13 and 14 are taken to resolve.
NextApp ==
    \/ st.script = "handler" /\ run_diagnosis
    \/ ButtonPressed
    \/ diagnose_button
    \/ show_result
    \/ script_rerun
    \/ pdf_button

\* Pages whose headings, images and security headers vary: their SEO and security
\* results mix issues that carry an explanation with issues that carry none.
HeaderSites(b) == {[b EXCEPT !.response.headers = hd] : hd \in SUBSET AllSecurityHeaders}

AppSites == UNION {HeadingSites(b) \cup HeaderSites(b) \cup OddSites(b) : b \in BaseSites}

InitApp == \E s \in AppSites : Constructed(s)

SpecApp == InitApp /\ [][NextApp]_vars

\* The sub-checks a category ran in this run, each with what it appended.
RanChecks(category) ==
    CASE category = "seo" -> SeoChecks(soup[1])
      [] category = "security" ->
             SecurityChecks(scheme = "https", response[1],
                            IF tls = None THEN "ok" ELSE tls[1])
      [] category = "performance" -> PerformanceChecks(response[1], soup[1], load_time[1])
      [] category = "accessibility" -> AccessibilityChecks(soup[1])

\* (issue, explanation) pairs appended together by one sub-check.
AttachedPairs(checks) ==
    {<<checks[i].issues[1], checks[i].explanations[1]>> :
        i \in {j \in 1..Len(checks) : checks[j].issues # <<>> /\ checks[j].explanations # <<>>}}

\* C24: whenever the result view shows an explanation beneath an issue, that
\* explanation is the one the analyzer's sub-check appended together with that
\* issue.
C24_ExplanationUnderItsIssue ==
    (st.view # None) =>
        \A c \in Categories :
            LET rows == st.view[1].tabs[c].issues
            IN  \A i \in 1..Len(rows) :
                    rows[i].expander # None =>
                        <<rows[i].issue, rows[i].expander[1]>> \in AttachedPairs(RanChecks(c))

\* C25: after a failed page fetch the handler reports an error, stores no
\* result, and the result section does not run against a missing result; the
\* success message and a stored result imply that a record was produced.
C25_SuccessOnlyWithRecord ==
    /\ (\E i \in 1..Len(st.messages) : st.messages[i].text = "diagnosis completed")
           => returned = "self.results"
    /\ InSession("diagnosis_result") => st.session_state.diagnosis_result # None
    /\ st.raised = None

(***************************************************************************)
(* PDFReportGenerator.generate: the page methods in call order.  Each one   *)
(* is modelled by the fields of the result record it reads and the          *)
(* exception the first unusable one raises, None when it reads them all.    *)
(***************************************************************************)
\* d[key] for each key of the sequence, in order: KeyError on the first key
\* the dict does not hold.
RECURSIVE Subscripts(_, _, _)
Subscripts(d, keys, n) ==
    IF n > Len(keys) THEN None
    ELSE IF keys[n] \notin DOMAIN d THEN Some("KeyError: " \o keys[n])
    ELSE Subscripts(d, keys, n + 1)

\* url, timestamp[:19] and overall_score.
_add_title_page(res) == Subscripts(res, <<"url", "timestamp", "overall_score">>, 1)

\* score and len(issues) of the four categories; the score chart reads the
\* same four scores.
_add_summary_page(res) ==
    LET seo == Subscripts(res.seo, <<"score", "issues">>, 1)
        security == Subscripts(res.security, <<"score", "issues">>, 1)
        performance == Subscripts(res.performance, <<"score", "issues">>, 1)
    IN  IF seo # None THEN seo
        ELSE IF security # None THEN security
        ELSE IF performance # None THEN performance
        ELSE Subscripts(res.accessibility, <<"score", "issues">>, 1)

\* title_text = seo.get('title', 'None'); len(title_text): the default is used
\* only when the key is absent, and diagnose_seo stores None under the key for
\* a page without a title.  Then len(seo['headings']['h1']), the first of the
\* six heading lists (held here under the level, 1), and the other metrics.
_add_seo_detail(res) ==
    LET seo == res.seo
        score == Subscripts(seo, <<"score">>, 1)
    IN  IF score # None THEN score
        ELSE IF "title" \in DOMAIN seo /\ seo.title = None
        THEN Some("TypeError: object of type 'NoneType' has no len()")
        ELSE IF "headings" \notin DOMAIN seo THEN Some("KeyError: headings")
        ELSE IF 1 \notin DOMAIN seo.headings THEN Some("KeyError: h1")
        ELSE Subscripts(seo, <<"images_with_alt", "total_images",
                               "internal_links_count", "external_links_count",
                               "issues">>, 1)

\* score, https, cookies_count and security_headers.items(); the issues are
\* not read.
_add_security_detail(res) ==
    Subscripts(res.security, <<"score", "https", "cookies_count", "security_headers">>, 1)

\* The metrics, then the four counts of performance['resources']; the issues
\* are not read.
_add_performance_detail(res) ==
    LET metrics == Subscripts(res.performance,
                              <<"score", "load_time", "page_size_kb", "compression",
                                "cache_control", "resources">>, 1)
    IN  IF metrics # None THEN metrics
        ELSE Subscripts(res.performance.resources,
                        <<"scripts", "stylesheets", "images", "iframes">>, 1)

\* The six metrics; the issues are not read.
_add_accessibility_detail(res) ==
    Subscripts(res.accessibility, <<"score", "lang_attribute", "images_without_alt_count",
                                    "form_inputs_count", "inputs_with_labels",
                                    "aria_roles_count", "empty_links_count">>, 1)

\* The methods generate calls before _add_recommendations, with what each raises.
PageMethods(res) ==
    <<[method |-> "_add_title_page", raises |-> _add_title_page(res)],
      [method |-> "_add_summary_page", raises |-> _add_summary_page(res)],
      [method |-> "_add_seo_detail", raises |-> _add_seo_detail(res)],
      [method |-> "_add_security_detail", raises |-> _add_security_detail(res)],
      [method |-> "_add_performance_detail", raises |-> _add_performance_detail(res)],
      [method |-> "_add_accessibility_detail", raises |-> _add_accessibility_detail(res)]>>

\* The page methods that raise, by position.
Raising(res) == {i \in 1..Len(PageMethods(res)) : PageMethods(res)[i].raises # None}

FirstOf(S) == CHOOSE i \in S : \A j \in S : i <= j

\* generate on the record a completed run returned: the pages are added in
\* order until one raises; when none does, the recommendations are added and
\* self.doc.build is reached.
generate ==
    /\ pc = "returned"
    /\ returned = "self.results"
    /\ pdf = None
    /\ IF Raising(results) = {}
       THEN /\ pdf' = Some([build |-> TRUE, stopped_in |-> "", raised |-> None])
            /\ story' = Some(<<[Paragraph |-> "Priority Action Items"],
                               [Spacer |-> 5],
                               [Table |-> rec_data(results)]>>)
       ELSE /\ pdf' = Some([build |-> FALSE,
                            stopped_in |-> PageMethods(results)[FirstOf(Raising(results))].method,
                            raised |-> PageMethods(results)[FirstOf(Raising(results))].raises])
            /\ story' = story
    /\ UNCHANGED <<st, tool, scheme, pc, response, soup, load_time, site, started, done,
                   local, tls, shown, results, returned, run, fetches, first>>

NextPdf == run_diagnosis \/ generate

SpecPdf == InitApp /\ [][NextPdf]_vars

\* C26: for every record a successful diagnosis returns, generate reads every
\* field without a missing-field or null-value error and reaches the build step.
C26_GenerateReachesBuild ==
    (pdf # None) => (pdf[1].build /\ pdf[1].raised = None)

\* The largest raw sum the specification states for each analyzer.
C27_Maximum(category) ==
    CASE category = "seo" -> 95
      [] category = "security" -> 100
      [] category = "performance" -> 90
      [] category = "accessibility" -> 95

\* C27: in every analyzer the raw sum of the points its sub-checks awarded is at
\* most the stated maximum (SEO 95, Security 100, Performance 90, Accessibility
\* 95), hence at most 100, and the stored score is that raw sum: min(score, 100)
\* changes nothing.
C27_ClampNeverActive ==
    \A c \in done :
        LET raw == Accumulate(RanChecks(c)).score
        IN  /\ raw <= C27_Maximum(c)
            /\ raw <= 100
            /\ results[c].score = raw

\* A run in which every analyzer reached its maximum.
C27_Witness ==
    /\ done = Categories
    /\ \A c \in Categories :
           /\ Accumulate(RanChecks(c)).score = C27_Maximum(c)
           /\ results[c].score = C27_Maximum(c)

\* The first run and the current one read the same snapshot and each made a TLS
\* handshake, one of which succeeded and one of which failed.
C28_OnlyHandshakeDiffers ==
    /\ first # None
    /\ run > 1
    /\ "security" \in done
    /\ first[1].ret = "self.results"
    /\ first[1].snapshot = Snapshot
    /\ first[1].tls # None
    /\ tls # None
    /\ (first[1].tls = Some("ok")) # (tls = Some("ok"))

\* C28: two runs of diagnose_security that differ only in whether the TLS
\* handshake succeeds record the same security score; their results differ in
\* one entry only (the run that succeeded has the success "Valid SSL
\* certificate" where the other has the issue "SSL certificate check failed")
\* and in the stored certificate details.
C28_ScoreIgnoresHandshake ==
    C28_OnlyHandshakeDiffers =>
        LET now == results["security"]
            then == first[1].record["security"]
            good == IF tls = Some("ok") THEN now ELSE then
            bad == IF tls = Some("ok") THEN then ELSE now
            error == IF tls = Some("ok") THEN first[1].tls[1] ELSE tls[1]
        IN  /\ now.score = then.score
            /\ bad.issues = good.issues \o <<Entry("SSL certificate check failed: " \o error, <<>>)>>
            /\ good.success = bad.success \o <<Entry("Valid SSL certificate", <<>>)>>
            /\ now.explanations = then.explanations
            /\ now.https = then.https
            /\ now.security_headers = then.security_headers
            /\ good.ssl_certificate # None
            /\ bad.ssl_certificate = None

C28_Witness ==
    /\ C28_OnlyHandshakeDiffers
    /\ pc = "returned"
    /\ first[1].tls = Some("ok")
    /\ tls = Some("timed out")
    /\ results["security"].score = 100
    /\ first[1].record["security"].score = 100

\* The entries of a list of the category result that come from sub-checks which
\* appended to both lists named.
EntriesWith(checks, list, other) ==
    Appended([i \in 1..Len(checks) |->
                 IF checks[i][other] # <<>> THEN checks[i] ELSE Nothing],
             list, Len(checks))

\* C29: in every category result, every explanation was appended by a sub-check
\* that appended an issue with it: the explanations are exactly those of the
\* sub-checks that raised an issue, one per issue at most, so the list is never
\* longer than the issues list and is empty when there are no issues.
C29_ExplanationsComeWithIssues ==
    \A c \in done :
        LET checks == RanChecks(c)
        IN  /\ \A i \in 1..Len(checks) :
                   /\ Len(checks[i].explanations) <= Len(checks[i].issues)
                   /\ checks[i].explanations # <<>> => checks[i].issues # <<>>
            /\ results[c].explanations = EntriesWith(checks, "explanations", "issues")
            /\ Len(results[c].explanations) <= Len(results[c].issues)
            /\ results[c].issues = <<>> => results[c].explanations = <<>>

\* A category with more issues than explanations, next to one with no issue.
C29_Witness ==
    /\ done = Categories
    /\ Len(results["security"].explanations) = 3
    /\ Len(results["security"].issues) = 8
    /\ results["seo"].issues = <<>>
    /\ results["seo"].explanations = <<>>

\* The category a row of the table names, and its place in the list built at
\* the top of the method.
C30_Key(name) ==
    CHOOSE c \in Categories : cat_name(c) = name

C30_Place(name) ==
    CHOOSE i \in 1..Len(categories) : categories[i] = C30_Key(name)

\* The issues listed for category c, in row order.
C30_Listed(c) ==
    LET rows == Rows
        RECURSIVE Upto(_)
        Upto(n) == IF n = 0 THEN <<>>
                   ELSE IF rows[n][2] = cat_name(c)
                        THEN Append(Upto(n - 1), rows[n][3].issue)
                        ELSE Upto(n - 1)
    IN  Upto(Len(rows))

\* C30: the recommendation table has at most 10 rows and at most 3 issues of
\* any one category; the priority numbers are 1, 2, ..., k in row order; the
\* categories appear in ascending order of score, equal scores in the order
\* Security, Accessibility, SEO, Performance; the issues of one category are
\* listed in their discovery order; rows 1-3 are labelled HIGH, 4-6 MED and
\* 7-10 LOW.
C30_TableShape ==
    story # None =>
        /\ Len(Rows) <= 10
        /\ \A c \in Categories :
               /\ Len(C30_Listed(c)) <= 3
               /\ C30_Listed(c) = Take(results[c].issues, Len(C30_Listed(c)))
        /\ \A i \in 1..Len(Rows) :
               /\ Rows[i][1].priority = i
               /\ Rows[i][1].symbol = (IF i \in 1..3 THEN "HIGH"
                                       ELSE IF i \in 4..6 THEN "MED" ELSE "LOW")
        /\ \A i, j \in 1..Len(Rows) :
               i < j =>
                   LET si == results[C30_Key(Rows[i][2])].score
                       sj == results[C30_Key(Rows[j][2])].score
                   IN  \/ si < sj
                       \/ si = sj /\ C30_Place(Rows[i][2]) <= C30_Place(Rows[j][2])

\* A full table: ten rows, three categories tied on the lowest score and listed
\* in list order, the best category last and cut to one issue.
C30_Witness ==
    /\ story # None
    /\ Len(Rows) = 10
    /\ Rows[1][2] = "Accessibility"
    /\ Rows[4][2] = "SEO"
    /\ Rows[7][2] = "Performance"
    /\ Rows[10][2] = "Security"
    /\ Len(results["security"].issues) > 3

====
